---- MODULE Spec2Model ----
(***************************************************************************)
(* snakecheck: generation tracing (snakecheck/trace.py) and dataflow-aware *)
(* shrinking (snakecheck/shrinking.py).                                    *)
(*                                                                         *)
(* A trace id "t<n>" is modelled by the natural number n.  A Python value  *)
(* is a record [kind, n, s]: kind "int" carries the integer in n, kinds    *)
(* "str" and "list" carry their elements in s, kind "other" is any value   *)
(* the shrinker has no transform for.  Traces are objects on a heap, so    *)
(* that aliasing and copying (deepcopy) are visible.                       *)
(***************************************************************************)
EXTENDS Integers, Sequences, FiniteSets, TLC

\* ------------------------------------------------------------------ bounds
MaxEntries == 3
MaxDepth == 1
MaxInt == 40
MaxApplications == 7
ChainLength == 6
MaxScopes == 2
SequenceLength == 8
LengthThreshold == 5
MaxInvocations == 24
MaxArg == 4
MaxArgs == 2
MaxLen == 4
MaxDerived == 1

Names == {"x", "y"}

\* ------------------------------------------------------------------ values
IntV(i) == [kind |-> "int", n |-> i, s |-> <<>>]
StrV(q) == [kind |-> "str", n |-> 0, s |-> q]
ListV(q) == [kind |-> "list", n |-> 0, s |-> q]
OtherV == [kind |-> "other", n |-> 0, s |-> <<>>]

\* The values a strategy's generate() hands to a draw.
DrawValues == {IntV(0), IntV(5)}

Abs(i) == IF i < 0 THEN -i ELSE i
Max2(a, b) == IF a >= b THEN a ELSE b
Front(q) == SubSeq(q, 1, Len(q) - 1)
Last(q) == q[Len(q)]
SeqToSet(q) == {q[i] : i \in 1..Len(q)}

\* ------------------------------------------------------------------ trace
EmptyTrace == [entries |-> <<>>, variable_assignments |-> <<>>, next_id |-> 0]

TraceEntry(id, value, dependencies) ==
    [id |-> id, value |-> value, dependencies |-> dependencies]

\* GenerationTrace.add_entry: the new id is the counter, which is advanced.
add_entry(trace, value, dependencies) ==
    [trace EXCEPT !.entries = Append(@, TraceEntry(trace.next_id, value, dependencies)),
                  !.next_id = @ + 1]

\* GenerationTrace.assign_variable
assign_variable(trace, var_name, trace_id) ==
    [trace EXCEPT !.variable_assignments =
        [v \in (DOMAIN @) \cup {var_name} |-> IF v = var_name THEN trace_id ELSE @[v]]]

EntryIds(trace) == {trace.entries[i].id : i \in 1..Len(trace.entries)}

\* next((e for e in self.entries if e.id == node_id), None): the index of the
\* first entry with that id, 0 for None.
FindEntry(trace, node_id) ==
    IF \E i \in 1..Len(trace.entries) : trace.entries[i].id = node_id
    THEN CHOOSE i \in 1..Len(trace.entries) :
            /\ trace.entries[i].id = node_id
            /\ \A j \in 1..(i - 1) : trace.entries[j].id # node_id
    ELSE 0

\* The value of the entry with this id (the last one, should ids repeat).
ValueOf(trace, id) ==
    LET i == CHOOSE k \in 1..Len(trace.entries) :
                /\ trace.entries[k].id = id
                /\ \A j \in (k + 1)..Len(trace.entries) : trace.entries[j].id # id
    IN trace.entries[i].value

\* GenerationTrace.get_dependency_graph: id -> set of its dependencies.
get_dependency_graph(trace) ==
    [a \in EntryIds(trace) |->
        LET i == CHOOSE k \in 1..Len(trace.entries) :
                    /\ trace.entries[k].id = a
                    /\ \A j \in (k + 1)..Len(trace.entries) : trace.entries[j].id # a
        IN SeqToSet(trace.entries[i].dependencies)]

\* get_reverse_dependencies with "reverse[dep_id] = {entry.id}" for the add: each
\* key keeps only the last entry that lists it.
get_reverse_dependencies_overwrite(trace) ==
    LET deps == UNION {SeqToSet(trace.entries[i].dependencies) : i \in 1..Len(trace.entries)}
    IN [b \in deps |->
            LET last == CHOOSE k \in 1..Len(trace.entries) :
                            /\ b \in SeqToSet(trace.entries[k].dependencies)
                            /\ \A j \in (k + 1)..Len(trace.entries) :
                                    b \notin SeqToSet(trace.entries[j].dependencies)
            IN {trace.entries[last].id}]

\* GenerationTrace.get_reverse_dependencies: a key exists only for an id that
\* some entry lists as a dependency.
get_reverse_dependencies(trace) ==
    LET deps == UNION {SeqToSet(trace.entries[i].dependencies) : i \in 1..Len(trace.entries)}
    IN [b \in deps |->
            {trace.entries[i].id : i \in {k \in 1..Len(trace.entries) :
                                            b \in SeqToSet(trace.entries[k].dependencies)}}]

\* dict.get(key, default)
Get(map, key, default) == IF key \in DOMAIN map THEN map[key] ELSE default

\* ------------------------------------------------------------------ graph queries
\* Iterating a Python set: the model visits the smallest remaining id first.
\* (The queries below return sets that do not depend on the order.)
MinOf(S) == CHOOSE a \in S : \A b \in S : a <= b

\* Sequence of the elements of S, ascending.
RECURSIVE AscSeq(_)
AscSeq(S) == IF S = {} THEN <<>> ELSE <<MinOf(S)>> \o AscSeq(S \ {MinOf(S)})

\* GenerationTrace.get_connected_components, inner dfs(node_id, component).
\* st = [visited, component]; both are updated in place by the code.
RECURSIVE dfs(_, _, _)
RECURSIVE dfs_each(_, _, _)
dfs_each(trace, ids, st) ==
    IF ids = <<>> THEN st
    ELSE dfs_each(trace, Tail(ids), dfs(trace, Head(ids), st))
\* dfs without its second loop: reverse dependencies are not visited.
dfs_forward_only(trace, node_id, st) ==
    IF node_id \in st.visited THEN st
    ELSE LET st1 == [visited |-> st.visited \cup {node_id},
                     component |-> st.component \cup {node_id}]
             i == FindEntry(trace, node_id)
         IN IF i = 0 THEN st1
            ELSE dfs_each(trace, trace.entries[i].dependencies, st1)
dfs(trace, node_id, st) ==
    IF node_id \in st.visited THEN st
    ELSE LET st1 == [visited |-> st.visited \cup {node_id},
                     component |-> st.component \cup {node_id}]
             i == FindEntry(trace, node_id)
         IN IF i = 0 THEN st1
            ELSE LET st2 == dfs_each(trace, trace.entries[i].dependencies, st1)
                     reverse_deps == get_reverse_dependencies(trace)
                 IN dfs_each(trace, AscSeq(Get(reverse_deps, node_id, {})), st2)

\* GenerationTrace.get_connected_components: the list of components, in the
\* order of the first entry of each.
RECURSIVE components_from(_, _, _, _)
components_from(trace, i, visited, components) ==
    IF i > Len(trace.entries) THEN components
    ELSE IF trace.entries[i].id \in visited
         THEN components_from(trace, i + 1, visited, components)
         ELSE LET st == dfs(trace, trace.entries[i].id, [visited |-> visited, component |-> {}])
              IN components_from(trace, i + 1, st.visited, Append(components, st.component))

get_connected_components(trace) == components_from(trace, 1, {}, <<>>)

\* GenerationTrace.get_variable_dependencies, inner collect_deps(node_id).
RECURSIVE collect_deps(_, _, _)
RECURSIVE collect_deps_each(_, _, _)
collect_deps_each(trace, ids, dependencies) ==
    IF ids = <<>> THEN dependencies
    ELSE collect_deps_each(trace, Tail(ids), collect_deps(trace, Head(ids), dependencies))
\* collect_deps whose loop stops one dependency short.
collect_deps_short(trace, node_id, dependencies) ==
    IF node_id \in dependencies THEN dependencies
    ELSE LET i == FindEntry(trace, node_id)
         IN IF i = 0 THEN dependencies \cup {node_id}
            ELSE collect_deps_each(trace, Front(trace.entries[i].dependencies),
                                   dependencies \cup {node_id})
collect_deps(trace, node_id, dependencies) ==
    IF node_id \in dependencies THEN dependencies
    ELSE LET i == FindEntry(trace, node_id)
         IN IF i = 0 THEN dependencies \cup {node_id}
            ELSE collect_deps_each(trace, trace.entries[i].dependencies,
                                   dependencies \cup {node_id})

\* get_variable_dependencies returning the dependencies proper: the ids
\* collected, without the id the name is bound to.
get_variable_dependencies_proper(trace, var_name) ==
    IF var_name \notin DOMAIN trace.variable_assignments THEN {}
    ELSE collect_deps(trace, trace.variable_assignments[var_name], {})
            \ {trace.variable_assignments[var_name]}
\* GenerationTrace.get_variable_dependencies
get_variable_dependencies(trace, var_name) ==
    IF var_name \notin DOMAIN trace.variable_assignments THEN {}
    ELSE collect_deps(trace, trace.variable_assignments[var_name], {})

\* GenerationTrace.get_dependent_variables, inner collect_dependents(node_id):
\* for each reverse dependency that some name is bound to, the names are added
\* and the recursion goes on from it; a reverse dependency no name is bound to
\* is skipped.  There is no visited set: path holds the ids of the calls in
\* progress, and reaching one of them again never ends (RecursionError).
RECURSIVE collect_dependents(_, _, _, _)
collect_dependents(trace, reverse_deps, node_id, path) ==
    LET bound == {dep_id \in Get(reverse_deps, node_id, {}) :
                    \E var \in DOMAIN trace.variable_assignments :
                        trace.variable_assignments[var] = dep_id}
        calls == {collect_dependents(trace, reverse_deps, dep_id, path \cup {node_id}) :
                    dep_id \in bound \ (path \cup {node_id})}
    IN IF bound \cap (path \cup {node_id}) # {} \/ \E c \in calls : c.raised
       THEN [raised |-> TRUE, dependent_vars |-> {}]
       ELSE [raised |-> FALSE,
             dependent_vars |->
                {var \in DOMAIN trace.variable_assignments :
                    trace.variable_assignments[var] \in bound}
                \cup UNION {c.dependent_vars : c \in calls}]

\* GenerationTrace.get_dependent_variables
get_dependent_variables(trace, var_name) ==
    IF var_name \notin DOMAIN trace.variable_assignments
    THEN [raised |-> FALSE, dependent_vars |-> {}]
    ELSE collect_dependents(trace, get_reverse_dependencies(trace),
                            trace.variable_assignments[var_name], {})

\* ------------------------------------------------------------------ shrink transforms
\* _try_shrink_int with * for //: the value is doubled.
_try_shrink_int_doubled(value) ==
    IF value > 0
    THEN LET shrunk_value == Max2(0, value * 2)
         IN IF shrunk_value # value THEN shrunk_value ELSE value
    ELSE IF value < 0
         THEN LET shrunk_value == value * 2
              IN IF shrunk_value # value THEN shrunk_value ELSE value
         ELSE value

\* DataflowAwareShrinker._try_shrink_int; // is floor division, as \div is.
_try_shrink_int(value) ==
    IF value > 0
    THEN LET shrunk_value == Max2(0, value \div 2)
         IN IF shrunk_value # value THEN shrunk_value ELSE value
    ELSE IF value < 0
         THEN LET shrunk_value == value \div 2
              IN IF shrunk_value # value THEN shrunk_value ELSE value
         ELSE value

\* DataflowAwareShrinker._try_shrink_str: value[: len(value) // 2]
_try_shrink_str(value) ==
    IF Len(value) > 1 THEN SubSeq(value, 1, Len(value) \div 2) ELSE value

\* DataflowAwareShrinker._try_shrink_list
_try_shrink_list(value) ==
    IF Len(value) > 1 THEN SubSeq(value, 1, Len(value) \div 2) ELSE value

\* _try_shrink_value whose integer candidate is twice the value.
_try_shrink_value_doubling(value) ==
    IF value.kind = "int" THEN IntV(value.n * 2) ELSE value

\* DataflowAwareShrinker._try_shrink_value: dispatch on the value's type.
_try_shrink_value(value) ==
    IF value.kind = "int" THEN IntV(_try_shrink_int(value.n))
    ELSE IF value.kind = "str" THEN StrV(_try_shrink_str(value.s))
    ELSE IF value.kind = "list" THEN ListV(_try_shrink_list(value.s))
    ELSE value

\* ------------------------------------------------------------------ predicates
\* test_func is the caller's black box; it is deterministic.  These are the
\* test functions the model runs the shrinker with.  Raising is "still fails".
Measure(value) == IF value.kind = "int" THEN value.n ELSE Len(value.s)

RECURSIVE SumOver(_, _)
SumOver(value, ids) ==
    IF ids = {} THEN 0
    ELSE LET a == MinOf(ids) IN Measure(value[a]) + SumOver(value, ids \ {a})

Always == [kind |-> "always", id |-> 0, k |-> 0]
SumGt(k) == [kind |-> "sum_gt", id |-> 0, k |-> k]
LenGe(k) == [kind |-> "len_ge", id |-> 0, k |-> k]
KeyGt(id, k) == [kind |-> "key_gt", id |-> id, k |-> k]
SequenceProperty == [kind |-> "sequence", id |-> 0, k |-> 0]
ScenarioProperty == [kind |-> "scenario", id |-> 0, k |-> 0]

\* Raises on ChainLength values of 5 and on no candidate that halves one of them.
ChainProperty == SumGt(5 * ChainLength - 1)

Predicates ==
    {Always, SumGt(4), SumGt(14), LenGe(3), KeyGt(0, 4), SequenceProperty, ScenarioProperty,
     ChainProperty}

\* Does test_func(value) raise?  value is the id -> value dict.
\*   always: raises on every input (e.g. it reads a key the dict never has)
\*   sum_gt: raises iff the sum of the values exceeds k
\*   len_ge: raises iff the dict has at least k items
\*   key_gt: reads value[id] (KeyError when absent) and raises iff it exceeds k
\*   sequence: test_sequence_property of the examples, which reads data["x"],
\*             data["y"] and data["z"]: the keys of the dict are entry ids,
\*             never names, so it raises KeyError on every input
\*   scenario: reads x = value[0] and y = value[1] (KeyError when absent) and
\*             raises iff x > 50 and y > x * 0.8
Raises(test_func, value) ==
    IF test_func.kind = "always" THEN TRUE
    ELSE IF test_func.kind = "sum_gt" THEN SumOver(value, DOMAIN value) > test_func.k
    ELSE IF test_func.kind = "len_ge" THEN Cardinality(DOMAIN value) >= test_func.k
    ELSE IF test_func.kind = "sequence" THEN TRUE
    ELSE IF test_func.kind = "scenario"
         THEN IF ~({0, 1} \subseteq DOMAIN value) THEN TRUE
              ELSE /\ Measure(value[0]) > 50
                   /\ 10 * Measure(value[1]) > 8 * Measure(value[0])
    ELSE IF test_func.id \notin DOMAIN value THEN TRUE
    ELSE Measure(value[test_func.id]) > test_func.k

\* ------------------------------------------------------------------ shrinker
\* _reconstruct_value with "if entry.value" in the comprehension: an entry
\* whose value is falsy (0, "", []) is left out.
_reconstruct_value_truthy(trace) ==
    [a \in {b \in EntryIds(trace) : Measure(ValueOf(trace, b)) # 0} |-> ValueOf(trace, a)]

\* DataflowAwareShrinker._reconstruct_value: {entry.id: entry.value}
_reconstruct_value(trace) == [a \in EntryIds(trace) |-> ValueOf(trace, a)]

\* _test_trace with its two returns swapped: True iff test_func passes.
_test_trace_inverted(trace, test_func) == ~Raises(test_func, _reconstruct_value(trace))

\* _test_trace without its "return False": every candidate counts as failing.
_test_trace_always_true(trace, test_func) == TRUE

\* DataflowAwareShrinker._test_trace: True iff test_func raises.
_test_trace(trace, test_func) == Raises(test_func, _reconstruct_value(trace))

\* A fresh object reference.
Alloc(h) == CHOOSE r \in 1..(Cardinality(DOMAIN h) + 1) : r \notin DOMAIN h

\* "new_trace = trace" for the deepcopy: the same object.
deepcopy_alias(h, ref) == [heap |-> h, ref |-> ref]

\* copy.deepcopy(trace): a new object with the same content.
deepcopy(h, ref) ==
    LET new == Alloc(h) IN [heap |-> h @@ (new :> h[ref]), ref |-> new]

\* An object nothing refers to any more is gone; live holds the references in use.
Release(h, ref, live) ==
    IF ref \in live THEN h ELSE [r \in (DOMAIN h) \ {ref} |-> h[r]]

\* _create_modified_trace building the modified entry anew, with the id and
\* the new value and no dependencies.
_create_modified_trace_new_entry(h, trace, entry_id, new_value) ==
    LET c == deepcopy(h, trace)
        i == FindEntry(c.heap[c.ref], entry_id)
    IN [heap |-> IF i = 0 THEN c.heap
                 ELSE [c.heap EXCEPT ![c.ref].entries[i] =
                                        TraceEntry(entry_id, new_value, <<>>)],
        ref |-> c.ref]

\* DataflowAwareShrinker._create_modified_trace
_create_modified_trace(h, trace, entry_id, new_value) ==
    LET c == deepcopy(h, trace)
        i == FindEntry(c.heap[c.ref], entry_id)
    IN [heap |-> IF i = 0 THEN c.heap
                 ELSE [c.heap EXCEPT ![c.ref].entries[i].value = new_value],
        ref |-> c.ref]

\* _remove_entry without its "Update dependencies" loop.
_remove_entry_keeps_dependencies(h, trace, entry_id) ==
    LET c == deepcopy(h, trace)
        old == c.heap[c.ref]
        vars_kept == {v \in DOMAIN old.variable_assignments :
                        old.variable_assignments[v] # entry_id}
        new_trace ==
            [old EXCEPT
                !.entries = SelectSeq(old.entries, LAMBDA e : e.id # entry_id),
                !.variable_assignments = [v \in vars_kept |-> old.variable_assignments[v]]]
    IN [heap |-> [c.heap EXCEPT ![c.ref] = new_trace], ref |-> c.ref]

\* _remove_entry without its "Remove from variable assignments" statement.
_remove_entry_keeps_assignments(h, trace, entry_id) ==
    LET c == deepcopy(h, trace)
        old == c.heap[c.ref]
        kept == SelectSeq(old.entries, LAMBDA e : e.id # entry_id)
        new_trace ==
            [old EXCEPT
                !.entries = [k \in 1..Len(kept) |->
                    [kept[k] EXCEPT !.dependencies =
                        SelectSeq(@, LAMBDA dep : dep # entry_id)]]]
    IN [heap |-> [c.heap EXCEPT ![c.ref] = new_trace], ref |-> c.ref]

\* DataflowAwareShrinker._remove_entry
_remove_entry(h, trace, entry_id) ==
    LET c == deepcopy(h, trace)
        old == c.heap[c.ref]
        kept == SelectSeq(old.entries, LAMBDA e : e.id # entry_id)
        vars_kept == {v \in DOMAIN old.variable_assignments :
                        old.variable_assignments[v] # entry_id}
        new_trace ==
            [old EXCEPT
                !.entries = [k \in 1..Len(kept) |->
                    [kept[k] EXCEPT !.dependencies =
                        SelectSeq(@, LAMBDA dep : dep # entry_id)]],
                !.variable_assignments = [v \in vars_kept |-> old.variable_assignments[v]]]
    IN [heap |-> [c.heap EXCEPT ![c.ref] = new_trace], ref |-> c.ref]

\* Every order in which a Python set may hand out its elements.
RECURSIVE Orderings(_)
Orderings(S) ==
    IF S = {} THEN {<<>>}
    ELSE UNION {{<<a>> \o q : q \in Orderings(S \ {a})} : a \in S}

\* DataflowAwareShrinker._sort_by_dependency_depth, inner get_depth(entry_id, visited).
\* visited is one set shared by the whole recursion, and max() walks the set
\* deps in the set's own order: the result is every [depth, visited] pair some
\* order produces.
RECURSIVE get_depth(_, _, _)
RECURSIVE max_get_depth(_, _, _, _)
max_get_depth(graph, deps, visited, best) ==
    IF deps = {} THEN {[depth |-> best, visited |-> visited]}
    ELSE UNION {UNION {max_get_depth(graph, deps \ {dep}, o.visited, Max2(best, o.depth)) :
                        o \in get_depth(graph, dep, visited)} : dep \in deps}
get_depth(graph, entry_id, visited) ==
    IF entry_id \in visited THEN {[depth |-> 0, visited |-> visited]}
    ELSE LET deps == Get(graph, entry_id, {})
         IN IF deps = {} THEN {[depth |-> 0, visited |-> visited \cup {entry_id}]}
            ELSE {[depth |-> 1 + o.depth, visited |-> o.visited] :
                    o \in max_get_depth(graph, deps, visited \cup {entry_id}, 0)}

\* The sort keys sorted() may see: one get_depth(e.id) per entry, each with a
\* fresh visited set.
RECURSIVE DepthKeys(_, _, _)
DepthKeys(graph, entries, n) ==
    IF n = 0 THEN {<<>>}
    ELSE {Append(ks, o.depth) : ks \in DepthKeys(graph, entries, n - 1),
                                o \in get_depth(graph, entries[n].id, {})}

\* sorted(entries, key=...): stable, ascending.  The result lists the entries.
SortedBy(entries, keys) ==
    LET n == Len(entries)
        Rank(i) == 1 + Cardinality({j \in 1..n : \/ keys[j] < keys[i]
                                                 \/ keys[j] = keys[i] /\ j < i})
    IN [r \in 1..n |-> entries[CHOOSE i \in 1..n : Rank(i) = r]]

\* DataflowAwareShrinker._sort_by_dependency_depth: the orders it may return.
_sort_by_dependency_depth(graph, entries) ==
    {SortedBy(entries, keys) : keys \in DepthKeys(graph, entries, Len(entries))}

\* entry.value of entry = next(e for e in trace.entries if e.id == entry_id):
\* the first entry of the trace with the id.
EntryValue(h, trace, entry_id) == h[trace].entries[FindEntry(h[trace], entry_id)].value

\* The loop of _shrink_individual_values without its "break": after an accepted
\* candidate it goes on with the later entries, from the accepted trace.
RECURSIVE individual_values_loop_no_break(_, _, _, _, _, _)
individual_values_loop_no_break(h, trace, test_func, sorted_entries, i, tested) ==
    IF i > Len(sorted_entries)
    THEN [heap |-> h, shrunk_trace |-> trace, tested |-> tested]
    ELSE LET entry_id == sorted_entries[i].id
             value == sorted_entries[i].value
             shrunk_value == _try_shrink_value(value)
         IN IF shrunk_value # value
            THEN LET c == _create_modified_trace(h, trace, entry_id, shrunk_value)
                     t == Append(tested, [id |-> entry_id, value |-> shrunk_value])
                 IN IF _test_trace(c.heap[c.ref], test_func)
                    THEN individual_values_loop_no_break(c.heap, c.ref, test_func,
                                                         sorted_entries, i + 1, t)
                    ELSE individual_values_loop_no_break(Release(c.heap, c.ref, {trace}),
                                                         trace, test_func, sorted_entries,
                                                         i + 1, t)
            ELSE individual_values_loop_no_break(h, trace, test_func, sorted_entries,
                                                 i + 1, tested)

\* DataflowAwareShrinker._shrink_individual_values: the loop over sorted_entries
\* from position i on.  Result: the heap, the value of shrunk_trace when the
\* loop ends, and the candidates given to test_func.
RECURSIVE individual_values_loop(_, _, _, _, _, _)
individual_values_loop(h, trace, test_func, sorted_entries, i, tested) ==
    IF i > Len(sorted_entries)
    THEN [heap |-> h, shrunk_trace |-> trace, tested |-> tested]
    ELSE LET entry_id == sorted_entries[i].id
             value == sorted_entries[i].value
             shrunk_value == _try_shrink_value(value)
         IN IF shrunk_value # value
            THEN LET c == _create_modified_trace(h, trace, entry_id, shrunk_value)
                     t == Append(tested, [id |-> entry_id, value |-> shrunk_value])
                 IN IF _test_trace(c.heap[c.ref], test_func)
                    THEN [heap |-> c.heap, shrunk_trace |-> c.ref, tested |-> t]
                    ELSE individual_values_loop(Release(c.heap, c.ref, {trace}), trace,
                                                test_func, sorted_entries, i + 1, t)
            ELSE individual_values_loop(h, trace, test_func, sorted_entries, i + 1, tested)

\* _shrink_individual_values with its loop ended by the first candidate that
\* test_func passes on, as it is by the first one test_func raises on.
_shrink_individual_values_one_test(h, trace, test_func, sorted_entries) ==
    LET first == {k \in 1..Len(sorted_entries) :
                    _try_shrink_value(sorted_entries[k].value) # sorted_entries[k].value}
        r == individual_values_loop(h, trace, test_func,
                                    IF first = {} THEN <<>>
                                    ELSE SubSeq(sorted_entries, 1, MinOf(first)),
                                    1, <<>>)
    IN [heap |-> r.heap,
        ret |-> IF r.shrunk_trace # trace THEN r.shrunk_trace ELSE 0,
        raised |-> FALSE,
        tested |-> r.tested]

\* DataflowAwareShrinker._shrink_individual_values.  ret = 0 is None.
\* "shrunk_trace if shrunk_trace != trace else None" compares the two traces
\* field by field, down to the entries' strategy objects: a deep copy has
\* copies of them, and strategies define no __eq__, so an accepted copy never
\* equals the trace it was made from, whatever its ids and values.  The two
\* are equal only when shrunk_trace is still the object trace.
_shrink_individual_values(h, trace, test_func, sorted_entries) ==
    LET r == individual_values_loop(h, trace, test_func, sorted_entries, 1, <<>>)
    IN [heap |-> r.heap,
        ret |-> IF r.shrunk_trace # trace THEN r.shrunk_trace ELSE 0,
        raised |-> FALSE,
        tested |-> r.tested]

\* DataflowAwareShrinker._shrink_component: the loop over root_ids from
\* position i on.  next(e for e in trace.entries if e.id == root_id) raises
\* StopIteration when no entry has the id.
RECURSIVE component_loop(_, _, _, _, _, _)
component_loop(h, trace, test_func, root_ids, i, tested) ==
    IF i > Len(root_ids)
    THEN [heap |-> h, ret |-> 0, raised |-> FALSE, tested |-> tested]
    ELSE LET root_id == root_ids[i]
         IN IF FindEntry(h[trace], root_id) = 0
            THEN [heap |-> h, ret |-> 0, raised |-> TRUE, tested |-> tested]
            ELSE LET value == EntryValue(h, trace, root_id)
                     shrunk_value == _try_shrink_value(value)
                 IN IF shrunk_value # value
                    THEN LET c == _create_modified_trace(h, trace, root_id, shrunk_value)
                             t == Append(tested, [id |-> root_id, value |-> shrunk_value])
                         IN IF _test_trace(c.heap[c.ref], test_func)
                            THEN [heap |-> c.heap, ret |-> c.ref, raised |-> FALSE,
                                  tested |-> t]
                            ELSE component_loop(Release(c.heap, c.ref, {trace}), trace,
                                                test_func, root_ids, i + 1, t)
                    ELSE component_loop(h, trace, test_func, root_ids, i + 1, tested)

\* DataflowAwareShrinker._shrink_component: root_ids lists the component's ids
\* with no dependencies in self.dependency_graph, in the set's order.
_shrink_component(h, trace, dependency_graph, component, test_func, tested) ==
    LET roots == {tid \in component : Get(dependency_graph, tid, {}) = {}}
    IN {component_loop(h, trace, test_func, root_ids, 1, tested) :
            root_ids \in Orderings(roots)}

\* The loop of _shrink_dependency_chains without "if len(component) > 1".
RECURSIVE dependency_chains_loop_any_size(_, _, _, _, _, _, _)
dependency_chains_loop_any_size(h, trace, dependency_graph, test_func, components, i, tested) ==
    IF i > Len(components)
    THEN {[heap |-> h, ret |-> 0, raised |-> FALSE, tested |-> tested]}
    ELSE UNION {IF r.ret # 0 \/ r.raised
                THEN {r}
                ELSE dependency_chains_loop_any_size(r.heap, trace, dependency_graph,
                                                     test_func, components, i + 1,
                                                     r.tested) :
                    r \in _shrink_component(h, trace, dependency_graph, components[i],
                                            test_func, tested)}

\* DataflowAwareShrinker._shrink_dependency_chains: the loop over components
\* from position i on.
RECURSIVE dependency_chains_loop(_, _, _, _, _, _, _)
dependency_chains_loop(h, trace, dependency_graph, test_func, components, i, tested) ==
    IF i > Len(components)
    THEN {[heap |-> h, ret |-> 0, raised |-> FALSE, tested |-> tested]}
    ELSE IF Cardinality(components[i]) > 1
         THEN UNION {IF r.ret # 0 \/ r.raised
                     THEN {r}
                     ELSE dependency_chains_loop(r.heap, trace, dependency_graph, test_func,
                                                 components, i + 1, r.tested) :
                        r \in _shrink_component(h, trace, dependency_graph, components[i],
                                                test_func, tested)}
         ELSE dependency_chains_loop(h, trace, dependency_graph, test_func,
                                     components, i + 1, tested)

\* DataflowAwareShrinker._shrink_dependency_chains: its possible results.
_shrink_dependency_chains(h, trace, dependency_graph, test_func) ==
    dependency_chains_loop(h, trace, dependency_graph, test_func,
                           get_connected_components(h[trace]), 1, <<>>)

\* The loop of _shrink_optional_dependencies without its
\* "len(dependents) > 1 and len(entry.dependencies) <= 1" test: every entry
\* is tried.
RECURSIVE optional_dependencies_loop_any_entry(_, _, _, _, _, _)
optional_dependencies_loop_any_entry(h, trace, reverse_dependencies, test_func, i, tested) ==
    IF i > Len(h[trace].entries)
    THEN [heap |-> h, ret |-> 0, raised |-> FALSE, tested |-> tested]
    ELSE LET entry == h[trace].entries[i]
             c == _remove_entry(h, trace, entry.id)
             t == Append(tested, entry.id)
         IN IF _test_trace(c.heap[c.ref], test_func)
            THEN [heap |-> c.heap, ret |-> c.ref, raised |-> FALSE, tested |-> t]
            ELSE optional_dependencies_loop_any_entry(Release(c.heap, c.ref, {trace}),
                                                      trace, reverse_dependencies,
                                                      test_func, i + 1, t)

\* DataflowAwareShrinker._shrink_optional_dependencies: the loop over
\* trace.entries from position i on.
RECURSIVE optional_dependencies_loop(_, _, _, _, _, _)
optional_dependencies_loop(h, trace, reverse_dependencies, test_func, i, tested) ==
    IF i > Len(h[trace].entries)
    THEN [heap |-> h, ret |-> 0, raised |-> FALSE, tested |-> tested]
    ELSE LET entry == h[trace].entries[i]
             dependents == Get(reverse_dependencies, entry.id, {})
         IN IF Cardinality(dependents) > 1 /\ Len(entry.dependencies) <= 1
            THEN LET c == _remove_entry(h, trace, entry.id)
                     t == Append(tested, entry.id)
                 IN IF _test_trace(c.heap[c.ref], test_func)
                    THEN [heap |-> c.heap, ret |-> c.ref, raised |-> FALSE, tested |-> t]
                    ELSE optional_dependencies_loop(Release(c.heap, c.ref, {trace}), trace,
                                                    reverse_dependencies, test_func, i + 1, t)
            ELSE optional_dependencies_loop(h, trace, reverse_dependencies, test_func,
                                            i + 1, tested)

_shrink_optional_dependencies(h, trace, reverse_dependencies, test_func) ==
    optional_dependencies_loop(h, trace, reverse_dependencies, test_func, 1, <<>>)

\* "if shrunk_trace: current_trace = shrunk_trace" after a phase that returned
\* r: the trace the call goes on with, the heap once the trace it replaces is
\* no longer referred to, and what the phase did (for the record of the call).
Accept(self, current_trace, r) ==
    [heap |-> IF r.ret # 0 THEN Release(r.heap, current_trace, {self.trace, r.ret})
              ELSE r.heap,
     current_trace |-> IF r.ret # 0 THEN r.ret ELSE current_trace,
     returned |-> r.ret # 0,
     tested |-> r.tested]

\* The record of a phase that did not run.
NoPhase == [returned |-> FALSE, tested |-> <<>>, trace |-> EmptyTrace]

\* What one phase left behind, for the record of a call.
PhaseRecord(s) ==
    [returned |-> s.returned, tested |-> s.tested, trace |-> s.heap[s.current_trace]]

\* shrink_failing_example from Phase C on; sa and sb are where Phases A and B
\* left the call.  "return current_value, current_trace".
shrink_return(sa, sb, sc) ==
    [heap |-> sc.heap, raised |-> FALSE, current_trace |-> sc.current_trace,
     current_value |-> _reconstruct_value(sc.heap[sc.current_trace]),
     A |-> PhaseRecord(sa), B |-> PhaseRecord(sb), C |-> PhaseRecord(sc)]

\* Phase C of shrink_failing_example, on the trace Phase B left, and the return.
shrink_phase_C(self, test_func, sa, sb) ==
    shrink_return(sa, sb,
                  Accept(self, sb.current_trace,
                         _shrink_optional_dependencies(sb.heap, sb.current_trace,
                                                       self.reverse_dependencies,
                                                       test_func)))

\* shrink_failing_example after Phase B returned b: an exception of the phase
\* ends the call, and with its frames go the traces the call made, so that only
\* the caller's trace is left; otherwise Phase C runs on the trace Phase B left.
\* A Phase B that raised returned no trace: it gave test_func the candidates it
\* made before the exception and left current_trace as Phase A had it, and
\* Phase C did not run.
shrink_after_B(self, test_func, sa, b) ==
    IF b.raised
    THEN [heap |-> [r \in DOMAIN b.heap \cap {self.trace} |-> b.heap[r]],
          raised |-> TRUE, current_trace |-> 0, current_value |-> <<>>,
          A |-> PhaseRecord(sa),
          B |-> [returned |-> FALSE, tested |-> b.tested,
                 trace |-> sa.heap[sa.current_trace]],
          C |-> NoPhase]
    ELSE shrink_phase_C(self, test_func, sa, Accept(self, sa.current_trace, b))

\* Phase B called with self.trace in place of current_trace.
shrink_after_A_on_input(self, test_func, sa) ==
    {shrink_after_B(self, test_func, sa, b) :
        b \in _shrink_dependency_chains(sa.heap, self.trace, self.dependency_graph,
                                        test_func)}

\* shrink_failing_example after Phase A: Phase B on the trace Phase A left.
shrink_after_A(self, test_func, sa) ==
    {shrink_after_B(self, test_func, sa, b) :
        b \in _shrink_dependency_chains(sa.heap, sa.current_trace, self.dependency_graph,
                                        test_func)}

\* DataflowAwareShrinker.shrink_failing_example on the shrinker
\* [trace, dependency_graph, reverse_dependencies]: every result the call may
\* have.  Phase A, then Phase B, then Phase C, each on the trace the one before
\* left.  sorted_entries is Phase A's local of that name (the ids, in the order
\* the sort gave), kept with the result.
shrink_failing_example(h, self, test_func) ==
    UNION {{o @@ [sorted_entries |-> [k \in 1..Len(sorted_entries) |->
                                            sorted_entries[k].id]] :
                o \in shrink_after_A(self, test_func,
                                     Accept(self, self.trace,
                                            _shrink_individual_values(h, self.trace,
                                                                      test_func,
                                                                      sorted_entries))) } :
            sorted_entries \in _sort_by_dependency_depth(self.dependency_graph,
                                                         h[self.trace].entries)}

\* DataflowAwareShrinker.__init__
DataflowAwareShrinker(h, trace) ==
    [trace |-> trace,
     dependency_graph |-> get_dependency_graph(h[trace]),
     reverse_dependencies |-> get_reverse_dependencies(h[trace])]

\* __call__ without "self._current_dependencies.append(trace_id)".
draw_call_no_append(trace, current, drawn) ==
    [trace |-> add_entry(trace, drawn, current),
     _current_dependencies |-> current]

\* __call__ without the ".copy()": the entry shares the accumulator list, so
\* the append that follows adds the entry's own id to its dependencies.
draw_call_shared_list(trace, current, drawn) ==
    [trace |-> add_entry(trace, drawn, Append(current, trace.next_id)),
     _current_dependencies |-> Append(current, trace.next_id)]

\* TraceableDrawFn.__call__ on a tracer whose accumulator is current: the entry
\* gets a copy of the accumulator, and then its id joins the accumulator.
draw_call(trace, current, drawn) ==
    [trace |-> add_entry(trace, drawn, current),
     _current_dependencies |-> Append(current, trace.next_id)]

\* ------------------------------------------------------------------ state
VARIABLES
    heap,                  \* object reference -> GenerationTrace
    _current_dependencies, \* TraceableDrawFn._current_dependencies
    _dependency_stack,     \* TraceableDrawFn._dependency_stack
    pc,                    \* "gen": the generation pass runs; "generated": it has
                           \* returned its trace; "done"/"raised": the shrink call
                           \* returned or raised; "transform": see SpecTransform;
                           \* "scope": see SpecScope
    shrinker,              \* the DataflowAwareShrinker of the shrink call
    result,                \* what shrink_with_dataflow returned
    call,                  \* record of the shrink call: its test_func, the input
                           \* trace as it was at the call, and what each phase did
    value,                 \* the value a shrink transform is iterated on
    applications,          \* how many times the transform was applied to it; under
                           \* SpecRepeat, how many times shrink was called again
    driver,                \* a call of one of the drivers' simple shrinkers
                           \* (core._shrink_failing_example,
                           \* PropertyTest._shrink_example): see SpecDrivers
    tracers                \* the list objects of a tracer and of the tracer
                           \* with_dependencies made from it: see SpecDerived

vars == <<heap, _current_dependencies, _dependency_stack, pc, shrinker, result, call,
          value, applications, driver, tracers>>

\* The object create_traceable_draw() makes: the tracer's self.trace.
TraceRef == 1

NoShrinker == [trace |-> 0, dependency_graph |-> <<>>, reverse_dependencies |-> <<>>]
NoResult == [current_value |-> <<>>, current_trace |-> 0]
NoDriver == [pc |-> "none"]
NoTracer == [_current_dependencies |-> 0, _dependency_stack |-> <<>>]
NoTracers == [lists |-> <<>>, draw |-> NoTracer, new_draw |-> NoTracer, made |-> 0]
NoCall == [test_func |-> Always, input |-> EmptyTrace, sorted_entries |-> <<>>,
           A |-> NoPhase, B |-> NoPhase, C |-> NoPhase]

\* create_traceable_draw(): a fresh trace and a tracer on it.
Init ==
    /\ heap = (TraceRef :> EmptyTrace)
    /\ _current_dependencies = <<>>
    /\ _dependency_stack = <<>>
    /\ pc = "gen"
    /\ shrinker = NoShrinker
    /\ result = NoResult
    /\ call = NoCall
    /\ value = IntV(0)
    /\ applications = 0
    /\ driver = NoDriver
    /\ tracers = NoTracers

\* TraceableDrawFn.__call__; drawn is what strategy.generate() returned.
Draw(drawn) ==
    /\ pc = "gen"
    /\ Len(heap[TraceRef].entries) < MaxEntries
    /\ LET r == draw_call(heap[TraceRef], _current_dependencies, drawn)
       IN /\ heap' = [heap EXCEPT ![TraceRef] = r.trace]
          /\ _current_dependencies' = r._current_dependencies
    /\ UNCHANGED <<_dependency_stack, pc, shrinker, result, call, value, applications, driver, tracers>>

\* TraceableDrawFn.push_dependencies on a tracer with this accumulator and
\* stack: a copy of the accumulator goes on top of the stack.
push_dependencies(current, stack) ==
    [_current_dependencies |-> current, _dependency_stack |-> Append(stack, current)]

\* pop_dependencies with pop(0) for pop(): the oldest saved accumulator.
pop_dependencies_oldest(current, stack) ==
    IF stack # <<>>
    THEN [_current_dependencies |-> Head(stack), _dependency_stack |-> Tail(stack)]
    ELSE [_current_dependencies |-> current, _dependency_stack |-> stack]

\* TraceableDrawFn.pop_dependencies: "if self._dependency_stack:" the top of
\* the stack becomes the accumulator; with an empty stack nothing happens.
pop_dependencies(current, stack) ==
    IF stack # <<>>
    THEN [_current_dependencies |-> Last(stack), _dependency_stack |-> Front(stack)]
    ELSE [_current_dependencies |-> current, _dependency_stack |-> stack]

\* TraceableDrawFn.push_dependencies
PushDependencies ==
    /\ pc = "gen"
    /\ Len(_dependency_stack) < MaxDepth
    /\ LET r == push_dependencies(_current_dependencies, _dependency_stack)
       IN /\ _current_dependencies' = r._current_dependencies
          /\ _dependency_stack' = r._dependency_stack
    /\ UNCHANGED <<heap, pc, shrinker, result, call, value, applications, driver, tracers>>

\* TraceableDrawFn.pop_dependencies
PopDependencies ==
    /\ pc = "gen"
    /\ LET r == pop_dependencies(_current_dependencies, _dependency_stack)
       IN /\ _current_dependencies' = r._current_dependencies
          /\ _dependency_stack' = r._dependency_stack
    /\ UNCHANGED <<heap, pc, shrinker, result, call, value, applications, driver, tracers>>

\* The scan of record_assignment without "reversed": the oldest match.
OldestWithValue(trace, v) ==
    IF \E i \in 1..Len(trace.entries) : trace.entries[i].value = v
    THEN CHOOSE i \in 1..Len(trace.entries) :
            /\ trace.entries[i].value = v
            /\ \A j \in 1..(i - 1) : trace.entries[j].value # v
    ELSE 0

\* for entry in reversed(self.trace.entries): if entry.value == value
\* The index of the entry found, 0 when the loop ends without a match.
MostRecentWithValue(trace, v) ==
    IF \E i \in 1..Len(trace.entries) : trace.entries[i].value = v
    THEN CHOOSE i \in 1..Len(trace.entries) :
            /\ trace.entries[i].value = v
            /\ \A j \in (i + 1)..Len(trace.entries) : trace.entries[j].value # v
    ELSE 0

\* record_assignment whose loop has an "else" that binds the name to the
\* newest entry when no value matches.
record_assignment_else_newest(trace, var_name, v) ==
    LET i == MostRecentWithValue(trace, v)
    IN IF i # 0 THEN assign_variable(trace, var_name, trace.entries[i].id)
       ELSE IF trace.entries # <<>>
            THEN assign_variable(trace, var_name, trace.entries[Len(trace.entries)].id)
            ELSE trace

\* TraceableDrawFn.record_assignment: the trace after the call.  The loop ends
\* without a match, and without an effect, when no entry's value equals v.
record_assignment(trace, var_name, v) ==
    LET i == MostRecentWithValue(trace, v)
    IN IF i # 0 THEN assign_variable(trace, var_name, trace.entries[i].id)
       ELSE trace

\* TraceableDrawFn.record_assignment
RecordAssignment(var_name, v) ==
    /\ pc = "gen"
    /\ heap' = [heap EXCEPT ![TraceRef] = record_assignment(@, var_name, v)]
    /\ UNCHANGED <<_current_dependencies, _dependency_stack, pc, shrinker, result, call,
                   value, applications, driver, tracers>>

\* A generation pass that draws x, records it, draws y, which depends on x,
\* and records it, run to its return with x = 80 and y = 70.
ScenarioTrace ==
    LET x == draw_call(EmptyTrace, <<>>, IntV(80))
        y == draw_call(record_assignment(x.trace, "x", IntV(80)), x._current_dependencies,
                       IntV(70))
    IN record_assignment(y.trace, "y", IntV(70))

GenerateScenario ==
    /\ pc = "gen"
    /\ heap[TraceRef] = EmptyTrace
    /\ _current_dependencies = <<>>
    /\ _dependency_stack = <<>>
    /\ heap' = [heap EXCEPT ![TraceRef] = ScenarioTrace]
    /\ pc' = "generated"
    /\ UNCHANGED <<_current_dependencies, _dependency_stack, shrinker, result, call, value,
                   applications, driver, tracers>>

\* The examples' sequence_strategy run to its return on a fresh tracer, with
\* the values its three draws gave: draw x, record x, draw y, record y, draw z,
\* record z.
sequence_strategy(x, y, z) ==
    LET dx == draw_call(EmptyTrace, <<>>, IntV(x))
        dy == draw_call(record_assignment(dx.trace, "x", IntV(x)),
                        dx._current_dependencies, IntV(y))
        dz == draw_call(record_assignment(dy.trace, "y", IntV(y)),
                        dy._current_dependencies, IntV(z))
    IN record_assignment(dz.trace, "z", IntV(z))

\* Values the three draws of sequence_strategy may give: x in 0..100, y in
\* 0..x, z in y..x + 10.
SequenceDraws == {<<80, 70, 72>>, <<49, 48, 54>>, <<17, 2, 10>>, <<0, 0, 0>>}

\* The trace of sequence_strategy with x = 80, y = 70, z = 72.
ExampleTrace == sequence_strategy(80, 70, 72)

\* sequence_strategy.generate_with_trace()
GenerateExample ==
    /\ pc = "gen"
    /\ heap[TraceRef] = EmptyTrace
    /\ _current_dependencies = <<>>
    /\ _dependency_stack = <<>>
    /\ \E d \in SequenceDraws :
            heap' = [heap EXCEPT ![TraceRef] = sequence_strategy(d[1], d[2], d[3])]
    /\ pc' = "generated"
    /\ UNCHANGED <<_current_dependencies, _dependency_stack, shrinker, result, call, value,
                   applications, driver, tracers>>

\* n more draws of the value 5 in one scope.
RECURSIVE DrawChain(_, _, _)
DrawChain(trace, current, n) ==
    IF n = 0 THEN trace
    ELSE LET r == draw_call(trace, current, IntV(5))
         IN DrawChain(r.trace, r._current_dependencies, n - 1)

\* A generation pass that draws ChainLength values and opens no scope, run to
\* its return.
GenerateChain ==
    /\ pc = "gen"
    /\ heap[TraceRef] = EmptyTrace
    /\ _current_dependencies = <<>>
    /\ _dependency_stack = <<>>
    /\ heap' = [heap EXCEPT ![TraceRef] = DrawChain(EmptyTrace, <<>>, ChainLength)]
    /\ pc' = "generated"
    /\ UNCHANGED <<_current_dependencies, _dependency_stack, shrinker, result, call, value,
                   applications, driver, tracers>>

\* CompositeStrategy.generate_with_trace returns (result, trace): the draw
\* function was its local and is gone, the trace is the caller's.
GenerateWithTraceReturn ==
    /\ pc = "gen"
    /\ pc' = "generated"
    /\ _current_dependencies' = <<>>
    /\ _dependency_stack' = <<>>
    /\ UNCHANGED <<heap, shrinker, result, call, value, applications, driver, tracers>>

\* shrink_with_dataflow(trace, test_func) on the generated trace, which fails
\* test_func: builds the shrinker and runs shrink_failing_example to its end.
ShrinkWithDataflow(test_func) ==
    /\ pc = "generated"
    /\ Raises(test_func, [i \in EntryIds(heap[TraceRef]) |-> ValueOf(heap[TraceRef], i)])
    /\ LET self == DataflowAwareShrinker(heap, TraceRef)
       IN \E o \in shrink_failing_example(heap, self, test_func) :
            /\ shrinker' = self
            /\ heap' = o.heap
            /\ pc' = IF o.raised THEN "raised" ELSE "done"
            /\ result' = [current_value |-> o.current_value,
                          current_trace |-> o.current_trace]
            /\ call' = [test_func |-> test_func, input |-> heap[TraceRef],
                        sorted_entries |-> o.sorted_entries,
                        A |-> o.A, B |-> o.B, C |-> o.C]
    /\ UNCHANGED <<_current_dependencies, _dependency_stack, value, applications, driver, tracers>>

\* ------------------------------------------------------------------ transforms
\* The elements of the texts (character codes) and lists the transforms are
\* applied to, and the texts and lists themselves.
Elements == {0, 1}
RECURSIVE SeqsOfLen(_)
SeqsOfLen(n) ==
    IF n = 0 THEN {<<>>}
    ELSE {Append(q, e) : q \in SeqsOfLen(n - 1), e \in Elements}
SeqsUpTo(n) == UNION {SeqsOfLen(k) : k \in 0..n}

\* The values a shrink transform is iterated on.
TransformInputs ==
    {IntV(i) : i \in (-MaxInt)..MaxInt}
        \cup {StrV(q) : q \in SeqsUpTo(MaxLen)}
        \cup {ListV(q) : q \in SeqsUpTo(MaxLen)}

InitTransform ==
    /\ heap = (TraceRef :> EmptyTrace)
    /\ _current_dependencies = <<>>
    /\ _dependency_stack = <<>>
    /\ pc = "transform"
    /\ shrinker = NoShrinker
    /\ result = NoResult
    /\ call = NoCall
    /\ value \in TransformInputs
    /\ applications = 0
    /\ driver = NoDriver
    /\ tracers = NoTracers

\* One more application of DataflowAwareShrinker._try_shrink_value to the value
\* the previous application returned.
ApplyShrink ==
    /\ pc = "transform"
    /\ applications < MaxApplications
    /\ value' = _try_shrink_value(value)
    /\ applications' = applications + 1
    /\ UNCHANGED <<heap, _current_dependencies, _dependency_stack, pc, shrinker, result,
                   call, driver, tracers>>

Next ==
    \/ \E drawn \in DrawValues : Draw(drawn)
    \/ PushDependencies
    \/ PopDependencies
    \/ \E var_name \in Names, v \in DrawValues : RecordAssignment(var_name, v)
    \/ GenerateWithTraceReturn
    \/ GenerateExample
    \/ GenerateScenario
    \/ GenerateChain
    \/ \E test_func \in Predicates : ShrinkWithDataflow(test_func)

Spec == Init /\ [][Next]_vars

NextTransform == ApplyShrink

SpecTransform == InitTransform /\ [][NextTransform]_vars

\* ------------------------------------------------------------------ nested scopes
\* A tracer used with nested scopes: draws, pushes and pops in any order, up to
\* MaxScopes open scopes.
InitScope ==
    /\ heap = (TraceRef :> EmptyTrace)
    /\ _current_dependencies = <<>>
    /\ _dependency_stack = <<>>
    /\ pc = "scope"
    /\ shrinker = NoShrinker
    /\ result = NoResult
    /\ call = NoCall
    /\ value = IntV(0)
    /\ applications = 0
    /\ driver = NoDriver
    /\ tracers = NoTracers

\* TraceableDrawFn.__call__
ScopeDraw(drawn) ==
    /\ pc = "scope"
    /\ Len(heap[TraceRef].entries) < MaxEntries + 1
    /\ LET r == draw_call(heap[TraceRef], _current_dependencies, drawn)
       IN /\ heap' = [heap EXCEPT ![TraceRef] = r.trace]
          /\ _current_dependencies' = r._current_dependencies
    /\ UNCHANGED <<_dependency_stack, pc, shrinker, result, call, value, applications, driver, tracers>>

\* TraceableDrawFn.push_dependencies
ScopePush ==
    /\ pc = "scope"
    /\ Len(_dependency_stack) < MaxScopes
    /\ LET r == push_dependencies(_current_dependencies, _dependency_stack)
       IN /\ _current_dependencies' = r._current_dependencies
          /\ _dependency_stack' = r._dependency_stack
    /\ UNCHANGED <<heap, pc, shrinker, result, call, value, applications, driver, tracers>>

\* TraceableDrawFn.pop_dependencies
ScopePop ==
    /\ pc = "scope"
    /\ LET r == pop_dependencies(_current_dependencies, _dependency_stack)
       IN /\ _current_dependencies' = r._current_dependencies
          /\ _dependency_stack' = r._dependency_stack
    /\ UNCHANGED <<heap, pc, shrinker, result, call, value, applications, driver, tracers>>

NextScope ==
    \/ \E drawn \in DrawValues : ScopeDraw(drawn)
    \/ ScopePush
    \/ ScopePop

SpecScope == InitScope /\ [][NextScope]_vars

\* ------------------------------------------------------------------ derived tracers
\* TraceableDrawFn.with_dependencies makes a second tracer on the same trace.
\* Its _current_dependencies is a copy of the list it is given; its
\* _dependency_stack is a copy of the first tracer's stack, a new list that
\* holds the same saved accumulators: the list objects, not copies of them.
\* tracers.lists maps a reference to the content of a list object, and each
\* tracer holds references: draw is the tracer create_traceable_draw() made,
\* new_draw the one with_dependencies returned last (reference 0: none yet),
\* made the number of calls of with_dependencies so far.
\* _current_dependencies and _dependency_stack keep showing the content of
\* the first tracer's fields.
Tracers == {"draw", "new_draw"}

\* The dependency lists with_dependencies is called with: ids of entries,
\* repeated ids, and an id no entry has.
DanglingId == MaxEntries + 2
DerivedDependencies ==
    {<<>>, <<0>>, <<1>>, <<1, 1>>, <<DanglingId>>}

\* What strategy.generate() gives the draws; the tracers never look at it.
DerivedValues == {IntV(5)}

\* A fresh list object.
NewList(lists) == CHOOSE r \in 1..(Cardinality(DOMAIN lists) + 1) : r \notin DOMAIN lists

\* The list objects some tracer still refers to.
Referred(w) ==
    {w[t]._current_dependencies : t \in Tracers}
        \cup UNION {SeqToSet(w[t]._dependency_stack) : t \in Tracers}

\* The tracers with the list objects nothing refers to any more dropped, and
\* the references renamed 1, 2, ... in the order draw._current_dependencies,
\* draw._dependency_stack, new_draw._current_dependencies,
\* new_draw._dependency_stack: which reference names an object is immaterial.
Collected(w) ==
    LET fields == <<w.draw._current_dependencies>> \o w.draw._dependency_stack
                    \o <<w.new_draw._current_dependencies>> \o w.new_draw._dependency_stack
        First(r) == MinOf({i \in 1..Len(fields) : fields[i] = r})
        live == Referred(w) \ {0}
        Name(r) == IF r = 0 THEN 0
                   ELSE 1 + Cardinality({q \in live : First(q) < First(r)})
        Renamed(t) ==
            [_current_dependencies |-> Name(w[t]._current_dependencies),
             _dependency_stack |-> [i \in 1..Len(w[t]._dependency_stack) |->
                                        Name(w[t]._dependency_stack[i])]]
    IN [lists |-> [n \in 1..Cardinality(live) |->
                        w.lists[CHOOSE r \in live : Name(r) = n]],
        draw |-> Renamed("draw"),
        new_draw |-> Renamed("new_draw"),
        made |-> w.made]

\* The content of a tracer's _current_dependencies and _dependency_stack.
CurrentOf(w, t) == w.lists[w[t]._current_dependencies]
StackOf(w, t) ==
    [i \in 1..Len(w[t]._dependency_stack) |-> w.lists[w[t]._dependency_stack[i]]]

\* TraceableDrawFn.__call__ on tracer t: the entry gets a copy of the
\* accumulator, and the new id is appended to the accumulator object itself.
tracer_call(w, t, trace, drawn) ==
    LET r == draw_call(trace, CurrentOf(w, t), drawn)
    IN [trace |-> r.trace,
        tracers |-> [w EXCEPT !.lists[w[t]._current_dependencies] =
                                    r._current_dependencies]]

\* TraceableDrawFn.push_dependencies on tracer t: a copy of the accumulator, a
\* new list object, goes on top of the stack.
tracer_push(w, t) ==
    LET copy == NewList(w.lists)
    IN Collected([w EXCEPT !.lists = (copy :> CurrentOf(w, t)) @@ @,
                           ![t]._dependency_stack = Append(@, copy)])

\* TraceableDrawFn.pop_dependencies on tracer t: the list object on top of the
\* stack becomes the accumulator.
tracer_pop(w, t) ==
    IF w[t]._dependency_stack # <<>>
    THEN Collected([w EXCEPT ![t]._current_dependencies = Last(w[t]._dependency_stack),
                             ![t]._dependency_stack = Front(w[t]._dependency_stack)])
    ELSE w

\* TraceableDrawFn.with_dependencies called on tracer t: new_draw has a copy of
\* dependencies and a stack with the list objects of t's stack.
with_dependencies(w, t, dependencies) ==
    LET copy == NewList(w.lists)
        stack == w[t]._dependency_stack
    IN Collected([w EXCEPT !.lists = (copy :> dependencies) @@ @,
                           !.new_draw = [_current_dependencies |-> copy,
                                         _dependency_stack |-> stack],
                           !.made = @ + 1])

\* create_traceable_draw(): a fresh trace and a tracer on it.
InitTracers ==
    [lists |-> (1 :> <<>>),
     draw |-> [_current_dependencies |-> 1, _dependency_stack |-> <<>>],
     new_draw |-> NoTracer,
     made |-> 0]

InitDerived ==
    /\ heap = (TraceRef :> EmptyTrace)
    /\ _current_dependencies = <<>>
    /\ _dependency_stack = <<>>
    /\ pc = "tracers"
    /\ shrinker = NoShrinker
    /\ result = NoResult
    /\ call = NoCall
    /\ value = IntV(0)
    /\ applications = 0
    /\ driver = NoDriver
    /\ tracers = InitTracers

\* The tracer exists: new_draw only once with_dependencies has returned one.
Made(t) == tracers[t]._current_dependencies # 0

\* What the step leaves of the first tracer's fields.
FirstTracerIs(w) ==
    /\ _current_dependencies' = CurrentOf(w, "draw")
    /\ _dependency_stack' = StackOf(w, "draw")

\* t(strategy): TraceableDrawFn.__call__ on tracer t.
TracerCall(t, drawn) ==
    /\ pc = "tracers"
    /\ Made(t)
    /\ Len(heap[TraceRef].entries) < MaxEntries
    /\ LET r == tracer_call(tracers, t, heap[TraceRef], drawn)
       IN /\ heap' = [heap EXCEPT ![TraceRef] = r.trace]
          /\ tracers' = r.tracers
          /\ FirstTracerIs(r.tracers)
    /\ UNCHANGED <<pc, shrinker, result, call, value, applications, driver>>

\* t.push_dependencies()
TracerPush(t) ==
    /\ pc = "tracers"
    /\ Made(t)
    /\ Len(tracers[t]._dependency_stack) < MaxDepth
    /\ tracers' = tracer_push(tracers, t)
    /\ FirstTracerIs(tracer_push(tracers, t))
    /\ UNCHANGED <<heap, pc, shrinker, result, call, value, applications, driver>>

\* t.pop_dependencies()
TracerPop(t) ==
    /\ pc = "tracers"
    /\ Made(t)
    /\ tracers' = tracer_pop(tracers, t)
    /\ FirstTracerIs(tracer_pop(tracers, t))
    /\ UNCHANGED <<heap, pc, shrinker, result, call, value, applications, driver>>

\* new_draw = t.with_dependencies(dependencies); an earlier new_draw is dropped.
WithDependencies(t, dependencies) ==
    /\ pc = "tracers"
    /\ Made(t)
    /\ tracers.made < MaxDerived
    /\ tracers' = with_dependencies(tracers, t, dependencies)
    /\ UNCHANGED <<heap, _current_dependencies, _dependency_stack, pc, shrinker, result,
                   call, value, applications, driver>>

NextDerived ==
    \/ \E t \in Tracers, drawn \in DerivedValues : TracerCall(t, drawn)
    \/ \E t \in Tracers : TracerPush(t)
    \/ \E t \in Tracers : TracerPop(t)
    \/ \E t \in Tracers, dependencies \in DerivedDependencies :
            WithDependencies(t, dependencies)

SpecDerived == InitDerived /\ [][NextDerived]_vars

\* ------------------------------------------------------------------ repeated shrinking
\* A driver that calls shrink_with_dataflow on a failing trace and then again
\* on each trace it returns, with the same test_func, until a call returns its
\* input.

\* Raises iff the value of entry t0 is longer (or larger) than LengthThreshold.
LengthProperty == KeyGt(0, LengthThreshold)

RepeatPredicates == Predicates \cup {LengthProperty}

\* The trace of a generation pass that drew one value.
SingleEntryTrace(v) == draw_call(EmptyTrace, <<>>, v).trace

\* The generation pass of ScenarioTrace going on, once the scope of x and y is
\* closed (the accumulator is empty again), with three more draws, each in a
\* scope of its own: a negative integer, a text and a list.
MixedTrace ==
    LET n == draw_call(ScenarioTrace, <<>>, IntV(-3))
        t == draw_call(n.trace, <<>>, StrV(<<1, 0, 1, 0>>))
        l == draw_call(t.trace, <<>>, ListV(<<0, 1>>))
    IN l.trace

\* The traces the driver starts from: one integer, one list of SequenceLength
\* elements, one text, the sequence_strategy example, the x = 80, y = 70
\* scenario, the scenario with a negative integer, a text and a list, three
\* draws in one scope.
RepeatTraces ==
    {SingleEntryTrace(IntV(i)) : i \in (-MaxInt)..MaxInt}
        \cup {SingleEntryTrace(ListV([k \in 1..SequenceLength |-> 0])),
              SingleEntryTrace(StrV([k \in 1..SequenceLength |-> 1])),
              ExampleTrace,
              ScenarioTrace,
              MixedTrace,
              DrawChain(EmptyTrace, <<>>, MaxEntries)}

InitRepeat ==
    /\ heap \in {(TraceRef :> trace) : trace \in RepeatTraces}
    /\ _current_dependencies = <<>>
    /\ _dependency_stack = <<>>
    /\ pc = "generated"
    /\ shrinker = NoShrinker
    /\ result = NoResult
    /\ call = NoCall
    /\ value = IntV(0)
    /\ applications = 0
    /\ driver = NoDriver
    /\ tracers = NoTracers

\* shrink_with_dataflow(trace, test_func) once more, on the trace the call
\* before returned, which is all the driver keeps; the driver stops when that
\* call accepted nothing.
ShrinkAgain ==
    /\ pc = "done"
    /\ ~(~call.A.returned /\ ~call.B.returned /\ ~call.C.returned)
    /\ applications < MaxInvocations
    /\ LET kept == (TraceRef :> heap[result.current_trace])
           self == DataflowAwareShrinker(kept, TraceRef)
       IN \E o \in shrink_failing_example(kept, self, call.test_func) :
            /\ shrinker' = self
            /\ heap' = o.heap
            /\ pc' = IF o.raised THEN "raised" ELSE "done"
            /\ result' = [current_value |-> o.current_value,
                          current_trace |-> o.current_trace]
            /\ call' = [test_func |-> call.test_func, input |-> kept[TraceRef],
                        sorted_entries |-> o.sorted_entries,
                        A |-> o.A, B |-> o.B, C |-> o.C]
    /\ applications' = applications + 1
    /\ UNCHANGED <<_current_dependencies, _dependency_stack, value, driver, tracers>>

NextRepeat ==
    \/ \E test_func \in RepeatPredicates : ShrinkWithDataflow(test_func)
    \/ ShrinkAgain

SpecRepeat == InitRepeat /\ [][NextRepeat]_vars

\* ------------------------------------------------------------------ the drivers' simple shrinkers
\* core._shrink_failing_example and PropertyTest._shrink_example, called with
\* func and a list of integer arguments by the except clause of a wrapper.  The
\* try of the wrappers holds both "test_data = [strat.generate() ...]" and the
\* call of func, so the list is one func raised on or, when generate() raised
\* in a later example, the list of the example before, on which func passed.
\* func is the caller's; it is deterministic.  The model runs the shrinkers
\* with:
\*   always:  raises on every argument list
\*   arg_gt:  raises iff argument i exceeds k
\*   arg_lt:  raises iff argument i is below k
\*   sum_gt:  raises iff the sum of the arguments exceeds k
DriverFuncs ==
    {[kind |-> "always", i |-> 1, k |-> 0], [kind |-> "sum_gt", i |-> 1, k |-> 2]}
        \cup {[kind |-> "arg_gt", i |-> i, k |-> k] : i \in 1..MaxArgs, k \in {0, 1}}
        \cup {[kind |-> "arg_lt", i |-> i, k |-> k] : i \in 1..MaxArgs, k \in {0, -1}}

RECURSIVE SumOfArgs(_)
SumOfArgs(data) == IF data = <<>> THEN 0 ELSE Head(data) + SumOfArgs(Tail(data))

\* Does func(*data) raise?
DriverRaises(func, data) ==
    IF func.kind = "always" THEN TRUE
    ELSE IF func.kind = "sum_gt" THEN SumOfArgs(data) > func.k
    ELSE IF func.i > Len(data) THEN FALSE
    ELSE IF func.kind = "arg_gt" THEN data[func.i] > func.k
    ELSE data[func.i] < func.k

\* The argument lists of the failing examples: 1..MaxArgs integers.
RECURSIVE ArgLists(_)
ArgLists(n) ==
    IF n = 0 THEN {<<>>}
    ELSE {Append(q, a) : q \in ArgLists(n - 1), a \in (-MaxArg)..MaxArg}
DriverInputs == UNION {ArgLists(n) : n \in 1..MaxArgs}

\* "for attempt in range(10)" of core._shrink_failing_example
Attempts == 10

RECURSIVE Pow2(_)
Pow2(n) == IF n = 0 THEN 1 ELSE 2 * Pow2(n - 1)

\* What a shrinker returns: a list, or None.
None == [none |-> TRUE, data |-> <<>>]
Some(data) == [none |-> FALSE, data |-> data]

\* The inner loop of core._shrink_failing_example whose test_data is a copy of
\* failing_data, not of shrunk_data.
RECURSIVE core_attempts_from_failing(_, _, _, _, _, _)
core_attempts_from_failing(func, failing_data, shrunk_data, i, attempt, observed) ==
    IF attempt >= Attempts
    THEN [shrunk_data |-> shrunk_data, observed |-> observed]
    ELSE LET test_value == failing_data[i] \div Pow2(attempt + 1)
             test_data == [failing_data EXCEPT ![i] = test_value]
         IN IF DriverRaises(func, test_data)
            THEN core_attempts_from_failing(func, failing_data,
                                            [shrunk_data EXCEPT ![i] = test_value], i,
                                            attempt + 1, observed \cup {test_data})
            ELSE [shrunk_data |-> shrunk_data, observed |-> observed]

\* core._shrink_failing_example, "for attempt in range(10)" for position i from
\* this attempt on: value // 2 ** (attempt + 1) is tested in a copy of
\* shrunk_data; when func passes the loop breaks, when it raises the value is
\* kept.  observed collects the argument lists func was seen to raise on.
RECURSIVE core_attempts(_, _, _, _, _, _)
core_attempts(func, failing_data, shrunk_data, i, attempt, observed) ==
    IF attempt >= Attempts
    THEN [shrunk_data |-> shrunk_data, observed |-> observed]
    ELSE LET test_value == failing_data[i] \div Pow2(attempt + 1)
             test_data == [shrunk_data EXCEPT ![i] = test_value]
         IN IF DriverRaises(func, test_data)
            THEN core_attempts(func, failing_data, [shrunk_data EXCEPT ![i] = test_value],
                               i, attempt + 1, observed \cup {test_data})
            ELSE [shrunk_data |-> shrunk_data, observed |-> observed]

\* core._shrink_failing_example, "for i, value in enumerate(failing_data)" from
\* position i on.
RECURSIVE core_positions(_, _, _, _, _)
core_positions(func, failing_data, shrunk_data, i, observed) ==
    IF i > Len(failing_data)
    THEN [shrunk_data |-> shrunk_data, observed |-> observed]
    ELSE LET r == core_attempts(func, failing_data, shrunk_data, i, 0, observed)
         IN core_positions(func, failing_data, r.shrunk_data, i + 1, r.observed)

\* core._shrink_failing_example(func, failing_data, args, kwargs, original_error)
_shrink_failing_example(func, failing_data) ==
    LET r == core_positions(func, failing_data, failing_data, 1, {})
    IN [ret |-> IF r.shrunk_data # failing_data THEN Some(r.shrunk_data) ELSE None,
        shrunk_data |-> r.shrunk_data,
        observed |-> r.observed]

\* PropertyTest._shrink_example, one run of "for i, value in
\* enumerate(shrunk_data)" from position i on: value // 2 of a non-zero value
\* is tested in a copy of shrunk_data and kept when func raises.
RECURSIVE property_for_loop(_, _, _, _, _)
property_for_loop(func, shrunk_data, i, improved, observed) ==
    IF i > Len(shrunk_data)
    THEN [shrunk_data |-> shrunk_data, improved |-> improved, observed |-> observed]
    ELSE LET value_i == shrunk_data[i]
             test_value_int == value_i \div 2
             test_data == [shrunk_data EXCEPT ![i] = test_value_int]
         IN IF value_i # 0
            THEN IF DriverRaises(func, test_data)
                 THEN property_for_loop(func, test_data, i + 1, TRUE,
                                        observed \cup {test_data})
                 ELSE property_for_loop(func, shrunk_data, i + 1, improved, observed)
            ELSE property_for_loop(func, shrunk_data, i + 1, improved, observed)

\* A driver caught an exception in its try and is about to call one of the
\* shrinkers with test_data: an exception of func(*test_data), or one of
\* strat.generate(), test_data then being the list func passed on before.
InitDrivers ==
    /\ heap = (TraceRef :> EmptyTrace)
    /\ _current_dependencies = <<>>
    /\ _dependency_stack = <<>>
    /\ pc = "driver"
    /\ shrinker = NoShrinker
    /\ result = NoResult
    /\ call = NoCall
    /\ value = IntV(0)
    /\ applications = 0
    /\ tracers = NoTracers
    /\ driver \in {[pc |-> "call", func |-> c[1], failing_data |-> c[2],
                    shrunk_data |-> c[2], improved |-> FALSE, before |-> <<>>,
                    observed |-> {}, ret |-> None] :
                        c \in DriverFuncs \X DriverInputs}

\* core._shrink_failing_example, from its call to its return.
CoreShrinkFailingExample ==
    /\ pc = "driver" /\ driver.pc = "call"
    /\ LET r == _shrink_failing_example(driver.func, driver.failing_data)
       IN driver' = [driver EXCEPT !.pc = "returned", !.shrunk_data = r.shrunk_data,
                                   !.observed = r.observed, !.ret = r.ret]
    /\ UNCHANGED <<heap, _current_dependencies, _dependency_stack, pc, shrinker, result,
                   call, value, applications, tracers>>

\* PropertyTest._shrink_example up to its loop:
\* "shrunk_data = failing_data.copy(); improved = True"
PropertyShrinkExample ==
    /\ pc = "driver" /\ driver.pc = "call"
    /\ driver' = [driver EXCEPT !.pc = "while", !.shrunk_data = driver.failing_data,
                                !.improved = TRUE]
    /\ UNCHANGED <<heap, _current_dependencies, _dependency_stack, pc, shrinker, result,
                   call, value, applications, tracers>>

\* PropertyTest._shrink_example, one run of the body of "while improved".
\* before keeps the list as it was when the run began.
PropertyWhileBody ==
    /\ pc = "driver" /\ driver.pc = "while" /\ driver.improved
    /\ LET r == property_for_loop(driver.func, driver.shrunk_data, 1, FALSE,
                                  driver.observed)
       IN driver' = [driver EXCEPT !.shrunk_data = r.shrunk_data,
                                   !.improved = r.improved,
                                   !.observed = r.observed,
                                   !.before = <<driver.shrunk_data>>]
    /\ UNCHANGED <<heap, _current_dependencies, _dependency_stack, pc, shrinker, result,
                   call, value, applications, tracers>>

\* PropertyTest._shrink_example, the loop has ended:
\* "return shrunk_data if shrunk_data != failing_data else None"
PropertyReturn ==
    /\ pc = "driver" /\ driver.pc = "while" /\ ~driver.improved
    /\ driver' = [driver EXCEPT !.pc = "returned",
                                !.ret = IF driver.shrunk_data # driver.failing_data
                                        THEN Some(driver.shrunk_data) ELSE None]
    /\ UNCHANGED <<heap, _current_dependencies, _dependency_stack, pc, shrinker, result,
                   call, value, applications, tracers>>

NextDrivers ==
    \/ CoreShrinkFailingExample
    \/ PropertyShrinkExample
    \/ PropertyWhileBody
    \/ PropertyReturn

SpecDrivers == InitDrivers /\ [][NextDrivers]_vars

\* ------------------------------------------------------------------ traces built directly
\* The dependency lists a caller of add_entry passes.
RawDependencies == {AscSeq(S) : S \in SUBSET (0..(MaxEntries - 1))}

\* The value add_entry is called with; the graph queries never look at it.
RawValue == IntV(5)

InitRaw ==
    /\ heap = (TraceRef :> EmptyTrace)
    /\ _current_dependencies = <<>>
    /\ _dependency_stack = <<>>
    /\ pc = "raw"
    /\ shrinker = NoShrinker
    /\ result = NoResult
    /\ call = NoCall
    /\ value = IntV(0)
    /\ applications = 0
    /\ driver = NoDriver
    /\ tracers = NoTracers

\* GenerationTrace.add_entry called on the trace, with a dependency list: ids
\* of entries the trace has, or the id the new entry is about to get.
AddEntry(dependencies) ==
    /\ pc = "raw"
    /\ heap[TraceRef].next_id < MaxEntries
    /\ SeqToSet(dependencies) \subseteq EntryIds(heap[TraceRef]) \cup {heap[TraceRef].next_id}
    /\ heap' = [heap EXCEPT ![TraceRef] = add_entry(@, RawValue, dependencies)]
    /\ UNCHANGED <<_current_dependencies, _dependency_stack, pc, shrinker, result, call,
                   value, applications, driver, tracers>>

\* GenerationTrace.assign_variable called on the trace; trace_id is any id.
AssignVariable(var_name, trace_id) ==
    /\ pc = "raw"
    /\ heap' = [heap EXCEPT ![TraceRef] = assign_variable(@, var_name, trace_id)]
    /\ UNCHANGED <<_current_dependencies, _dependency_stack, pc, shrinker, result, call,
                   value, applications, driver, tracers>>

\* DataflowAwareShrinker._remove_entry(trace, entry_id); the caller goes on with
\* the trace it returned and drops the one it passed.
RemoveEntry(entry_id) ==
    /\ pc = "raw"
    /\ entry_id \in EntryIds(heap[TraceRef])
    /\ LET c == _remove_entry(heap, TraceRef, entry_id)
       IN heap' = (TraceRef :> c.heap[c.ref])
    /\ UNCHANGED <<_current_dependencies, _dependency_stack, pc, shrinker, result, call,
                   value, applications, driver, tracers>>

NextRaw ==
    \/ \E dependencies \in RawDependencies : AddEntry(dependencies)
    \/ \E var_name \in Names, trace_id \in 0..(MaxEntries - 1) :
            AssignVariable(var_name, trace_id)
    \/ \E entry_id \in 0..(MaxEntries - 1) : RemoveEntry(entry_id)

SpecRaw == InitRaw /\ [][NextRaw]_vars

\* ------------------------------------------------------------------ claims
\* The trace the shrink call returned, and the id -> value map of a trace read
\* off its entries.
Returned == heap[result.current_trace]
ValueMap(trace) == [a \in EntryIds(trace) |-> ValueOf(trace, a)]
Ended == pc \in {"done", "raised"}
NothingAccepted == ~call.A.returned /\ ~call.B.returned /\ ~call.C.returned

\* C1: when shrink returns, test_func still raises on the value it returned and
\* on the value reconstructed from the trace it returned, whichever phases
\* accepted a candidate.
C1_StillFails ==
    pc = "done" =>
        /\ Raises(call.test_func, result.current_value)
        /\ Raises(call.test_func, ValueMap(Returned))

\* C1 witness: a call in which Phase A, Phase B and Phase C each accepted.
C1_AllPhasesAccepted ==
    pc = "done" /\ call.A.returned /\ call.B.returned /\ call.C.returned

\* C2: after the call the input trace object holds exactly what it held at the
\* call: entries (ids, values, dependency lists), variable_assignments, counter.
C2_InputNotMutated ==
    Ended => heap[shrinker.trace] = call.input

\* C2 witness: a call with a rejected trial, an accepted substitution and an
\* accepted removal.
C2_AcceptedAndRejected ==
    /\ pc = "done"
    /\ call.A.returned /\ Len(call.A.tested) > 1
    /\ call.C.returned
    /\ call.input.variable_assignments # <<>>

\* C3: when no phase accepted a candidate, the call returns normally, the trace
\* it returns is the input object, unchanged, and the value it returns maps each
\* entry id of that trace to the entry's value.
C3_NoAcceptReturnsInput ==
    (Ended /\ NothingAccepted) =>
        /\ pc = "done"
        /\ result.current_trace = shrinker.trace
        /\ Returned = call.input
        /\ DOMAIN result.current_value = EntryIds(call.input)
        /\ \A i \in 1..Len(call.input.entries) :
                result.current_value[call.input.entries[i].id] = call.input.entries[i].value

\* C3 witness: candidates were tried in Phase A, Phase B and Phase C, none accepted.
C3_AllRejected ==
    /\ pc = "done" /\ NothingAccepted
    /\ Len(call.A.tested) > 0 /\ Len(call.B.tested) > 0 /\ Len(call.C.tested) > 0

\* C4: in every trace (the tracer's, and the one shrink returns) no entry
\* depends on itself and every dependency is the id of an entry created
\* strictly earlier: a smaller id, at an earlier position.
DependenciesEarlier(trace) ==
    \A i \in 1..Len(trace.entries) :
        \A d \in SeqToSet(trace.entries[i].dependencies) :
            /\ d # trace.entries[i].id
            /\ d < trace.entries[i].id
            /\ \E j \in 1..(i - 1) : trace.entries[j].id = d

C4_DependenciesEarlier == \A r \in DOMAIN heap : DependenciesEarlier(heap[r])

\* C4 witness: shrink returned a trace from which Phase C removed an entry and
\* in which an entry still has a dependency.
C4_ShrunkKeepsDependency ==
    /\ pc = "done" /\ call.C.returned
    /\ \E i \in 1..Len(Returned.entries) : Returned.entries[i].dependencies # <<>>

\* C5: in every trace (the tracer's, and the one shrink returns) every value of
\* variable_assignments is the id of an entry of the trace.
C5_AssignmentsReferToEntries ==
    \A r \in DOMAIN heap :
        \A v \in DOMAIN heap[r].variable_assignments :
            heap[r].variable_assignments[v] \in EntryIds(heap[r])

\* C5 witness: Phase C removed an entry a name was bound to, and another name
\* is still bound in the returned trace.
C5_RemovedBoundEntry ==
    /\ pc = "done" /\ call.C.returned
    /\ \E v \in DOMAIN call.input.variable_assignments :
            call.input.variable_assignments[v] \notin EntryIds(Returned)
    /\ Returned.variable_assignments # <<>>

\* C6: reverse_dependencies() is the transpose of dependency_graph(): b is in
\* graph[a] iff a is in reverse[b], an absent key of reverse counting as empty.
C6_ReverseIsTranspose ==
    \A r \in DOMAIN heap :
        LET graph == get_dependency_graph(heap[r])
            reverse == get_reverse_dependencies(heap[r])
        IN /\ \A a \in DOMAIN graph : \A b \in graph[a] : a \in Get(reverse, b, {})
           /\ \A b \in DOMAIN reverse : \A a \in reverse[b] : a \in DOMAIN graph /\ b \in graph[a]

\* C6 witness: an id that two entries depend on.
C6_SharedDependency ==
    \E r \in DOMAIN heap :
        \E i, j \in 1..Len(heap[r].entries) :
            /\ i < j
            /\ SeqToSet(heap[r].entries[i].dependencies)
                    \cap SeqToSet(heap[r].entries[j].dependencies) # {}

\* C7: for every bound name, variable_dependencies(name) holds every dependency
\* of every id it holds, and closing it again adds nothing.
C7_VariableDependenciesClosed ==
    \A r \in DOMAIN heap :
        \A v \in DOMAIN heap[r].variable_assignments :
            LET deps == get_variable_dependencies(heap[r], v)
            IN /\ \A i \in 1..Len(heap[r].entries) :
                    heap[r].entries[i].id \in deps =>
                        SeqToSet(heap[r].entries[i].dependencies) \subseteq deps
               /\ UNION {collect_deps(heap[r], a, {}) : a \in deps} = deps

\* C7 witness: a name bound to an entry with two dependencies.
C7_BoundWithDependencies ==
    \E v \in DOMAIN heap[TraceRef].variable_assignments :
        Cardinality(get_variable_dependencies(heap[TraceRef], v)) >= 3

\* Undirected reachability over dependency edges, from the entries themselves.
Adjacent(trace, a, b) ==
    \E i \in 1..Len(trace.entries) :
        \/ trace.entries[i].id = a /\ b \in SeqToSet(trace.entries[i].dependencies)
        \/ trace.entries[i].id = b /\ a \in SeqToSet(trace.entries[i].dependencies)

RECURSIVE Joined(_, _)
Joined(trace, ids) ==
    LET more == ids \cup {b \in EntryIds(trace) : \E a \in ids : Adjacent(trace, a, b)}
    IN IF more = ids THEN ids ELSE Joined(trace, more)

\* C8: connected_components() is a partition of the entry ids (each id in
\* exactly one component, the union is the id set), and two ids share a
\* component exactly when dependency edges, taken in either direction, join them.
ComponentsPartition(trace) ==
    LET components == get_connected_components(trace)
        ids == EntryIds(trace)
    IN /\ \A a \in ids : Cardinality({k \in 1..Len(components) : a \in components[k]}) = 1
       /\ UNION {components[k] : k \in 1..Len(components)} = ids
       /\ \A k \in 1..Len(components) :
            \A a \in components[k] :
                {b \in ids : b \in Joined(trace, {a})} = components[k] \cap ids

C8_ComponentsPartition == \A r \in DOMAIN heap : ComponentsPartition(heap[r])

\* C8 witness: a trace with a component of one entry and a component of two.
C8_TwoComponents ==
    LET components == get_connected_components(heap[TraceRef])
    IN /\ Len(components) = 2
       /\ \E k \in 1..2 : Cardinality(components[k]) = 2

\* C9: an application of the integer transform never increases the absolute
\* value, and leaves 0 at 0.
C9_IntShrinkNonIncreasing ==
    [][(pc = "transform" /\ value.kind = "int") =>
            /\ value'.kind = "int"
            /\ Abs(value'.n) <= Abs(value.n)
            /\ (value.n = 0 => value'.n = 0)]_vars

\* C9 witness: the transform was applied to a negative integer and changed it.
C9_NegativeShrunk ==
    pc = "transform" /\ applications = 1 /\ value.kind = "int" /\ value.n < -1

\* C10: repeated application takes every integer, negative ones included, to
\* 0 (MaxApplications applications are enough for every input of the model),
\* and an integer the transform returned and leaves unchanged is 0.
C10_ReachesZero ==
    (pc = "transform" /\ applications > 0) =>
        /\ applications = MaxApplications => value.n = 0
        /\ _try_shrink_value(value) = value => value.n = 0

\* C11: the trace an accepted Phase C removal produces has exactly one entry
\* fewer than the trace Phase C ran on; the removed id is in no remaining
\* dependency list and is the value of no variable assignment; every other
\* entry keeps its id, its value and its other dependencies, in order, and
\* every other assignment is kept.
C11_RemovalExact ==
    (pc = "done" /\ call.C.returned) =>
        LET before == call.B.trace
            after == call.C.trace
            removed == Last(call.C.tested)
            others == {i \in 1..Len(before.entries) : before.entries[i].id # removed}
        IN /\ Len(after.entries) = Len(before.entries) - 1
           /\ Cardinality(others) = Len(after.entries)
           /\ \A k \in 1..Len(after.entries) :
                LET i == CHOOSE i \in others :
                            Cardinality({j \in others : j < i}) = k - 1
                IN /\ after.entries[k].id = before.entries[i].id
                   /\ after.entries[k].value = before.entries[i].value
                   /\ after.entries[k].dependencies =
                        SelectSeq(before.entries[i].dependencies, LAMBDA d : d # removed)
                   /\ removed \notin SeqToSet(after.entries[k].dependencies)
           /\ DOMAIN after.variable_assignments =
                {v \in DOMAIN before.variable_assignments :
                    before.variable_assignments[v] # removed}
           /\ \A v \in DOMAIN after.variable_assignments :
                /\ after.variable_assignments[v] = before.variable_assignments[v]
                /\ after.variable_assignments[v] # removed
           /\ after = Returned

\* C11 witness: the removed entry was a dependency of two entries and had a
\* name bound to it, and another name stays bound.
C11_RemovedSharedAndBound ==
    /\ pc = "done" /\ call.C.returned
    /\ Cardinality({i \in 1..Len(call.B.trace.entries) :
            Last(call.C.tested) \in SeqToSet(call.B.trace.entries[i].dependencies)}) >= 2
    /\ \E v \in DOMAIN call.B.trace.variable_assignments :
            call.B.trace.variable_assignments[v] = Last(call.C.tested)
    /\ call.C.trace.variable_assignments # <<>>

\* C12: record_assignment(name, value) binds name to the most recently
\* created entry whose stored value equals value.  For every name and value, a
\* step of the generation pass that is the call record_assignment(name, value)
\* leaves the entries and the counter alone and, when some entry holds a value
\* equal to value, binds name to the id of the last such entry and keeps every
\* other binding; when none does, the trace stays as it was.  So a call made
\* right after a draw, with the drawn value (the newest entry holds value),
\* binds name to that draw's entry, whatever older entries hold.
C12_NewestFirst ==
    [][\A name \in Names, v \in DrawValues :
        RecordAssignment(name, v) =>
            LET old == heap[TraceRef]
                new == heap'[TraceRef]
                entries == old.entries
                matches == {i \in 1..Len(entries) : entries[i].value = v}
                newest == CHOOSE m \in matches : \A k \in matches : k <= m
            IN /\ new.entries = entries
               /\ new.next_id = old.next_id
               /\ matches = {} => new = old
               /\ matches # {} =>
                    /\ DOMAIN new.variable_assignments =
                            DOMAIN old.variable_assignments \cup {name}
                    /\ new.variable_assignments[name] = entries[newest].id
                    /\ \A other \in DOMAIN old.variable_assignments \ {name} :
                            new.variable_assignments[other] =
                                old.variable_assignments[other]
               /\ (entries # <<>> /\ entries[Len(entries)].value = v) =>
                    /\ name \in DOMAIN new.variable_assignments
                    /\ new.variable_assignments[name] = entries[Len(entries)].id]_vars

\* C12 witness: a name is bound to the newest entry while an older entry holds
\* an equal value.
C12_BoundToNewestOfTwo ==
    /\ pc = "gen"
    /\ LET entries == heap[TraceRef].entries
       IN \E name \in DOMAIN heap[TraceRef].variable_assignments :
            /\ Len(entries) >= 2
            /\ heap[TraceRef].variable_assignments[name] = entries[Len(entries)].id
            /\ \E i \in 1..(Len(entries) - 1) : entries[i].value = entries[Len(entries)].value

\* The ids of the first n entries, in creation order.
IdsOfFirst(trace, n) == [i \in 1..n |-> trace.entries[i].id]

\* Every entry depends on exactly the entries created before it, and the
\* accumulator holds every id.
AllEarlier(trace, accumulator) ==
    /\ \A i \in 1..Len(trace.entries) :
            trace.entries[i].dependencies = IdsOfFirst(trace, i - 1)
    /\ accumulator = IdsOfFirst(trace, Len(trace.entries))

\* C13: a draw appends one entry whose dependencies are exactly the accumulator
\* of the scope as it was, and then the new id joins the accumulator; and as
\* long as no scope is pushed or popped, every draw depends on exactly the ids
\* of all the draws before it.
C13_DrawRecordsAccumulator ==
    [][(pc = "gen" /\ pc' = "gen") =>
        /\ Len(heap'[TraceRef].entries) # Len(heap[TraceRef].entries) =>
            /\ heap'[TraceRef].entries =
                    Append(heap[TraceRef].entries,
                           [id |-> heap[TraceRef].next_id,
                            value |-> Last(heap'[TraceRef].entries).value,
                            dependencies |-> _current_dependencies])
            /\ _current_dependencies' = Append(_current_dependencies, heap[TraceRef].next_id)
            /\ _dependency_stack' = _dependency_stack
        /\ (/\ _dependency_stack = <<>> /\ _dependency_stack' = <<>>
            /\ AllEarlier(heap[TraceRef], _current_dependencies))
                => AllEarlier(heap'[TraceRef], _current_dependencies')]_vars

\* C13 witness: three draws without a scope; the third depends on the two
\* before it.
C13_ThirdDependsOnTwo ==
    /\ pc = "gen" /\ _dependency_stack = <<>>
    /\ Len(heap[TraceRef].entries) = 3
    /\ AllEarlier(heap[TraceRef], _current_dependencies)

\* The ids of the entries that depend, directly or through other entries, on
\* one of ids.
RECURSIVE Dependents(_, _, _)
Dependents(trace, ids, found) ==
    LET more == found \cup {trace.entries[i].id : i \in {k \in 1..Len(trace.entries) :
                    SeqToSet(trace.entries[k].dependencies) \cap (ids \cup found) # {}}}
    IN IF more = found THEN found ELSE Dependents(trace, ids, more)

\* C14: for a bound name, dependent_variables(name) is the set of the names
\* bound to the entries that transitively depend on the entry the name is bound
\* to, whether or not the entries in between have names.
C14_DependentVariablesTransitive ==
    \A r \in DOMAIN heap :
        \A var_name \in DOMAIN heap[r].variable_assignments :
            LET got == get_dependent_variables(heap[r], var_name)
                dependents == Dependents(heap[r], {heap[r].variable_assignments[var_name]}, {})
            IN ~got.raised =>
                got.dependent_vars =
                    {var \in DOMAIN heap[r].variable_assignments :
                        heap[r].variable_assignments[var] \in dependents}

\* after is before with the value of one entry replaced by the candidate's.
OneSubstitution(before, after, candidate) ==
    LET i == FindEntry(before, candidate.id)
    IN /\ i # 0
       /\ before.entries[i].value # candidate.value
       /\ after = [before EXCEPT !.entries[i].value = candidate.value]

\* The ids whose value differs between two traces that both have them.
ValueChanged(before, after) ==
    {a \in EntryIds(before) \cap EntryIds(after) : ValueOf(before, a) # ValueOf(after, a)}

\* C15: a shrink call is Phase A on the input, Phase B on the trace Phase A
\* left, Phase C on the trace Phase B left, and returns the trace Phase C left.
\* Each phase leaves its trace as it found it or accepts one candidate: one
\* value substitution in A and in B, one removal in C.  So the returned trace
\* differs from the input by at most two substitutions and one removal.
C15_PhasesInOrder ==
    pc = "done" =>
        /\ IF call.A.returned
           THEN OneSubstitution(call.input, call.A.trace, Last(call.A.tested))
           ELSE call.A.trace = call.input
        /\ \A k \in 1..Len(call.A.tested) :
                call.A.tested[k].value =
                    _try_shrink_value(ValueOf(call.input, call.A.tested[k].id))
        /\ IF call.B.returned
           THEN OneSubstitution(call.A.trace, call.B.trace, Last(call.B.tested))
           ELSE call.B.trace = call.A.trace
        /\ \A k \in 1..Len(call.B.tested) :
                call.B.tested[k].value =
                    _try_shrink_value(ValueOf(call.A.trace, call.B.tested[k].id))
        /\ IF call.C.returned
           THEN /\ Len(call.C.trace.entries) = Len(call.B.trace.entries) - 1
                /\ EntryIds(call.C.trace) = EntryIds(call.B.trace) \ {Last(call.C.tested)}
                /\ ValueChanged(call.B.trace, call.C.trace) = {}
           ELSE call.C.trace = call.B.trace
        /\ SeqToSet(call.C.tested) \subseteq EntryIds(call.B.trace)
        /\ Returned = call.C.trace
        /\ Cardinality(ValueChanged(call.input, Returned)) <= 2
        /\ Len(call.input.entries) - Len(Returned.entries) \in {0, 1}
        /\ EntryIds(Returned) \subseteq EntryIds(call.input)

\* C15 witness: Phase B shrank again the entry Phase A had shrunk, starting
\* from the value Phase A left, and Phase C then removed an entry.
C15_SecondPhaseContinues ==
    /\ pc = "done" /\ call.A.returned /\ call.B.returned /\ call.C.returned
    /\ Last(call.A.tested).id = Last(call.B.tested).id
    /\ Last(call.B.tested).value = _try_shrink_value(Last(call.A.tested).value)
    /\ Last(call.B.tested).value # Last(call.A.tested).value

\* The size of a value: absolute value of an integer, length of a text or a
\* sequence.
SizeOf(v) == IF v.kind = "int" THEN Abs(v.n) ELSE Len(v.s)

\* x = 80 and y = 70, y depending on x, are the first two entries of the
\* trace, and no other entry depends on anything.
IsScenario(trace) ==
    /\ Len(trace.entries) >= 2
    /\ trace.entries[1] = TraceEntry(0, IntV(80), <<>>)
    /\ trace.entries[2] = TraceEntry(1, IntV(70), <<0>>)
    /\ \A i \in 3..Len(trace.entries) : trace.entries[i].dependencies = <<>>

\* C16: the trace a call of shrink returns has no more entries than the call's
\* input, every entry of it has the id of an input entry, and its value is of
\* the same type and no larger than that entry's input value: the absolute
\* value of an integer, negative ones included, the length of a text or of a
\* list.  test_func raises on the value of the returned trace.  On x = 80,
\* y = 70 (y depending on x) with the predicate that fails iff x > 50 and
\* y > 0.8 x, the returned trace still has x > 50 and y > 0.8 x.
C16_NeverLarger ==
    pc = "done" =>
        /\ Len(Returned.entries) <= Len(call.input.entries)
        /\ EntryIds(Returned) \subseteq EntryIds(call.input)
        /\ \A i \in 1..Len(Returned.entries) :
                LET e == Returned.entries[i]
                    j == FindEntry(call.input, e.id)
                IN /\ j # 0
                   /\ e.value.kind = call.input.entries[j].value.kind
                   /\ SizeOf(e.value) <= SizeOf(call.input.entries[j].value)
        /\ Raises(call.test_func, result.current_value)
        /\ (IsScenario(call.input) /\ call.test_func = ScenarioProperty) =>
                /\ {0, 1} \subseteq DOMAIN result.current_value
                /\ result.current_value[0].n > 50
                /\ 10 * result.current_value[1].n > 8 * result.current_value[0].n

\* C16 witness: shrink ran with that predicate on a trace with x = 80, y = 70,
\* a negative integer, a text and a list, tested and rejected the half of x in
\* Phases A and B, and returned a trace in which a text is shorter than in the
\* input.
C16_ExampleShrunk ==
    /\ pc = "done"
    /\ IsScenario(call.input) /\ call.test_func = ScenarioProperty
    /\ IsScenario(Returned)
    /\ \E i \in 1..Len(call.A.tested) : call.A.tested[i] = [id |-> 0, value |-> IntV(40)]
    /\ call.B.tested = <<[id |-> 0, value |-> IntV(40)]>> /\ ~call.B.returned
    /\ \E i \in 1..Len(call.input.entries) :
            /\ call.input.entries[i].value.kind = "int"
            /\ call.input.entries[i].value.n < 0
    /\ \E i \in 1..Len(call.input.entries) : call.input.entries[i].value.kind = "list"
    /\ \E i \in 1..Len(call.input.entries), j \in 1..Len(Returned.entries) :
            /\ call.input.entries[i].value.kind = "str"
            /\ Returned.entries[j].id = call.input.entries[i].id
            /\ Len(Returned.entries[j].value.s) < Len(call.input.entries[i].value.s)

\* The length of the longest dependency path that starts at an entry: 0 with
\* no dependencies, else 1 plus the largest such length among its dependencies.
RECURSIVE LongestPath(_, _)
LongestPath(trace, id) ==
    LET deps == SeqToSet(trace.entries[FindEntry(trace, id)].dependencies)
        RECURSIVE Largest(_)
        Largest(S) == IF S = {} THEN -1
                      ELSE LET a == MinOf(S) IN Max2(LongestPath(trace, a), Largest(S \ {a}))
    IN 1 + Largest(deps)

\* C17: Phase A gives candidates to the predicate in ascending order of
\* dependency depth, the depth of an entry being the length of its longest
\* dependency path: no entry is tried before an entry of strictly smaller
\* depth.
C17_AscendingDepth ==
    pc = "done" =>
        \A i, j \in 1..Len(call.A.tested) :
            i < j => LongestPath(call.input, call.A.tested[i].id)
                        <= LongestPath(call.input, call.A.tested[j].id)

\* Phase A's candidate for an entry of the input: the entry's id with the value
\* _try_shrink_value gives for it.
CandidateA(id) == [id |-> id, value |-> _try_shrink_value(ValueOf(call.input, id))]

\* The entry has a candidate: the transform changes its value.
HasCandidateA(id) == CandidateA(id).value # ValueOf(call.input, id)

\* The input with the entry's value replaced by its candidate's.
SubstitutedA(id) ==
    [call.input EXCEPT !.entries[FindEntry(call.input, id)].value = CandidateA(id).value]

\* test_func raises on the entry's candidate trace.
StillFailsA(id) == HasCandidateA(id) /\ Raises(call.test_func, ValueMap(SubstitutedA(id)))

\* The candidates of the entries at positions from..to of the scan order, in
\* that order.
RECURSIVE CandidatesA(_, _)
CandidatesA(from, to) ==
    IF from > to THEN <<>>
    ELSE IF HasCandidateA(call.sorted_entries[from])
         THEN <<CandidateA(call.sorted_entries[from])>> \o CandidatesA(from + 1, to)
         ELSE CandidatesA(from + 1, to)

\* C18: Phase A accepts the first entry of its scan order whose shrunk
\* candidate still makes test_func raise, and calls test_func for no later
\* entry: the candidates it tested are those of the entries up to that one, in
\* scan order.  The accepted trace is the phase's input with that one entry's
\* value replaced: every other value, the ids, the dependency lists and the
\* variable assignments are the input's.  With no such entry every candidate
\* is tested and the phase leaves the input.
C18_FirstImprovement ==
    pc = "done" =>
        LET n == Len(call.sorted_entries)
            failing == {k \in 1..n : StillFailsA(call.sorted_entries[k])}
        IN /\ SeqToSet(call.sorted_entries) = EntryIds(call.input)
           /\ n = Len(call.input.entries)
           /\ IF failing = {}
              THEN /\ ~call.A.returned
                   /\ call.A.trace = call.input
                   /\ call.A.tested = CandidatesA(1, n)
              ELSE LET first == MinOf(failing)
                   IN /\ call.A.returned
                      /\ call.A.tested = CandidatesA(1, first)
                      /\ call.A.trace = SubstitutedA(call.sorted_entries[first])
                      /\ call.A.trace.variable_assignments =
                            call.input.variable_assignments
                      /\ \A i \in 1..Len(call.input.entries) :
                            /\ call.A.trace.entries[i].id = call.input.entries[i].id
                            /\ call.A.trace.entries[i].dependencies =
                                    call.input.entries[i].dependencies
                            /\ call.input.entries[i].id # call.sorted_entries[first]
                                    => call.A.trace.entries[i].value =
                                            call.input.entries[i].value

\* C18 witness: Phase A tested a candidate that test_func passed, accepted the
\* next one, and left a later entry untried whose candidate fails as well.
C18_AcceptedAfterRejected ==
    /\ pc = "done" /\ call.A.returned
    /\ Len(call.A.tested) >= 2
    /\ \E k \in 1..Len(call.sorted_entries) :
            /\ StillFailsA(call.sorted_entries[k])
            /\ \A j \in 1..Len(call.A.tested) :
                    call.A.tested[j].id # call.sorted_entries[k]

\* A root of Phase B in a trace: an entry with an empty dependency list that
\* dependency edges join to at least one other entry.
IsRoot(trace, id) ==
    /\ FindEntry(trace, id) # 0
    /\ trace.entries[FindEntry(trace, id)].dependencies = <<>>
    /\ Cardinality(Joined(trace, {id})) >= 2

\* test_func raises on the trace with the candidate's value put in place.
CandidateFails(trace, candidate) ==
    Raises(call.test_func,
           ValueMap([trace EXCEPT
                        !.entries[FindEntry(trace, candidate.id)].value = candidate.value]))

\* C19: Phase B only offers test_func new values for roots, entries with an
\* empty dependency list in a connected component of at least two entries, so
\* an entry with dependencies or alone in its component keeps its value.  It
\* stops at the first candidate test_func raises on: every candidate tested
\* before the last passed, and the trace it leaves differs from the one it got
\* in the accepted root's value only.
C19_OnlyRoots ==
    pc = "done" =>
        LET tested == call.B.tested
        IN /\ \A k \in 1..Len(tested) :
                /\ IsRoot(call.A.trace, tested[k].id)
                /\ \A j \in 1..Len(tested) : tested[j].id = tested[k].id => j = k
                /\ k < Len(tested) => ~CandidateFails(call.A.trace, tested[k])
           /\ IF call.B.returned
              THEN /\ CandidateFails(call.A.trace, Last(tested))
                   /\ ValueChanged(call.A.trace, call.B.trace) = {Last(tested).id}
              ELSE /\ tested # <<>> => ~CandidateFails(call.A.trace, Last(tested))
                   /\ ValueChanged(call.A.trace, call.B.trace) = {}
           /\ \A id \in EntryIds(call.A.trace) :
                ~IsRoot(call.A.trace, id) =>
                    ValueOf(call.B.trace, id) = ValueOf(call.A.trace, id)

\* C19 witness: Phase B accepted a root's candidate on a trace that also has
\* an entry alone in its component and an entry with dependencies, each with a
\* shrunk value test_func would still raise on.
C19_RootShrunkOthersKept ==
    /\ pc = "done" /\ call.B.returned
    /\ \E a, b \in EntryIds(call.A.trace) :
            /\ Joined(call.A.trace, {a}) = {a}
            /\ call.A.trace.entries[FindEntry(call.A.trace, b)].dependencies # <<>>
            /\ \A id \in {a, b} :
                    /\ _try_shrink_value(ValueOf(call.A.trace, id)) # ValueOf(call.A.trace, id)
                    /\ CandidateFails(call.A.trace,
                                      [id |-> id,
                                       value |-> _try_shrink_value(ValueOf(call.A.trace, id))])
                    /\ ValueOf(call.B.trace, id) = ValueOf(call.A.trace, id)

\* The ids of the entries of a trace that list id among their dependencies.
DirectDependents(trace, id) ==
    {trace.entries[i].id : i \in {j \in 1..Len(trace.entries) :
                                    id \in SeqToSet(trace.entries[j].dependencies)}}

\* An entry Phase C may try to remove: more than one direct reverse-dependent
\* and at most one dependency of its own.
Removable(trace, id) ==
    /\ FindEntry(trace, id) # 0
    /\ Cardinality(DirectDependents(trace, id)) > 1
    /\ Len(trace.entries[FindEntry(trace, id)].dependencies) <= 1

\* test_func raises on the trace without the entry.
RemovalFails(trace, id) ==
    Raises(call.test_func, [a \in EntryIds(trace) \ {id} |-> ValueOf(trace, a)])

\* C20: Phase C removes at most one entry, and every entry it tries to remove
\* has, in the trace the phase works on, more than one direct reverse-dependent
\* and at most one dependency.  An entry with zero or one dependents, or with
\* two or more dependencies, is in the trace the phase leaves.
C20_RemovesOnlyShared ==
    pc = "done" =>
        LET removed == EntryIds(call.B.trace) \ EntryIds(call.C.trace)
        IN /\ Cardinality(removed) <= 1
           /\ Len(call.B.trace.entries) - Len(call.C.trace.entries) = Cardinality(removed)
           /\ call.C.returned <=> removed # {}
           /\ \A k \in 1..Len(call.C.tested) : Removable(call.B.trace, call.C.tested[k])
           /\ \A id \in removed : Removable(call.B.trace, id) /\ id = Last(call.C.tested)
           /\ \A id \in EntryIds(call.B.trace) :
                ~Removable(call.B.trace, id) => id \in EntryIds(call.C.trace)

\* C20 witness: Phase C removed an entry two others depend on, and kept an
\* entry with one dependent and an entry with two dependencies although
\* test_func raises without either of them.
C20_SharedRemovedOthersKept ==
    /\ pc = "done" /\ call.C.returned
    /\ \E a, b \in EntryIds(call.C.trace) :
            /\ Cardinality(DirectDependents(call.B.trace, a)) = 1
            /\ Len(call.B.trace.entries[FindEntry(call.B.trace, b)].dependencies) >= 2
            /\ RemovalFails(call.B.trace, a)
            /\ RemovalFails(call.B.trace, b)

\* C21: the transform takes a text or list of length n >= 1 to its first
\* n \div 2 elements, so that a value of length 1 becomes empty, and leaves
\* only the empty text or list unchanged.
C21_TruncatesToFirstHalf ==
    [][(pc = "transform" /\ value.kind \in {"str", "list"}) =>
            /\ value'.kind = value.kind
            /\ value'.s = SubSeq(value.s, 1, Len(value.s) \div 2)
            /\ (value' = value => value.s = <<>>)]_vars

\* No entry of the trace holds a value equal to v.
NoEntryWithValue(trace, v) == \A i \in 1..Len(trace.entries) : trace.entries[i].value # v

\* C22: during a generation pass, record_assignment(name, v) with no entry
\* whose value equals v leaves the trace as it is: the entries, the bindings
\* (a bound name keeps its binding, an unbound name stays unbound) and the id
\* counter.  For a name that is not bound, get_variable_dependencies and
\* get_dependent_variables return the empty set and do not raise.
C22_UnmatchedAssignmentDropped ==
    pc = "gen" =>
        LET trace == heap[TraceRef]
        IN /\ \A name \in Names, v \in DrawValues :
                NoEntryWithValue(trace, v) =>
                    LET after == record_assignment(trace, name, v)
                    IN /\ after.entries = trace.entries
                       /\ after.variable_assignments = trace.variable_assignments
                       /\ after = trace
           /\ \A name \in Names \ DOMAIN trace.variable_assignments :
                /\ get_variable_dependencies(trace, name) = {}
                /\ get_dependent_variables(trace, name) =
                        [raised |-> FALSE, dependent_vars |-> {}]

\* C22 witness: a trace with two entries, one name bound and the other not,
\* and a value of the strategies that no entry holds, so that recording it
\* under either name finds no match.
C22_NoMatchOnBoundAndUnbound ==
    /\ pc = "gen"
    /\ Len(heap[TraceRef].entries) >= 2
    /\ Cardinality(DOMAIN heap[TraceRef].variable_assignments) = 1
    /\ \E v \in DrawValues : NoEntryWithValue(heap[TraceRef], v)
    /\ \E name \in DOMAIN heap[TraceRef].variable_assignments :
            get_variable_dependencies(heap[TraceRef], name) # {}

\* p is an initial part of q.
IsPrefix(p, q) == Len(p) <= Len(q) /\ SubSeq(q, 1, Len(p)) = p

\* C23: push and pop save and restore the accumulator last in, first out.  A
\* push puts the accumulator on top of the saved ones and keeps it; a draw
\* leaves the saved ones alone, records the accumulator (so it depends on all
\* that was accumulated before the push of its scope, which is an initial part
\* of the accumulator) and adds its id; a pop makes the accumulator what it was
\* at the matching push, so that the ids drawn inside the scope are gone from
\* it and later draws do not depend on them.  With no open scope a pop changes
\* nothing.
C23_ScopesRestoreAccumulator ==
    [][pc = "scope" =>
        LET entries == heap[TraceRef].entries
            after == heap'[TraceRef].entries
            n == Len(_dependency_stack)
        IN /\ \A k \in 1..n :
                IsPrefix(_dependency_stack[k],
                         IF k < n THEN _dependency_stack[k + 1] ELSE _current_dependencies)
           /\ Len(after) > Len(entries) =>
                /\ _dependency_stack' = _dependency_stack
                /\ Last(after).dependencies = _current_dependencies
                /\ _current_dependencies' = Append(_current_dependencies, Last(after).id)
           /\ Len(_dependency_stack') > n =>
                /\ _dependency_stack' = Append(_dependency_stack, _current_dependencies)
                /\ _current_dependencies' = _current_dependencies
                /\ after = entries
           /\ Len(_dependency_stack') < n =>
                /\ _current_dependencies' = _dependency_stack[n]
                /\ _dependency_stack' = SubSeq(_dependency_stack, 1, n - 1)
                /\ after = entries
                /\ \A id \in SeqToSet(_current_dependencies) \ SeqToSet(_dependency_stack[n]) :
                        id \notin SeqToSet(_current_dependencies')
           /\ (n = 0 /\ _dependency_stack' = <<>> /\ after = entries) =>
                _current_dependencies' = _current_dependencies]_vars

\* C23 witness: two nested scopes were opened and closed.  The draw in the
\* inner scope depends on the draw of the outer scope, the draw after the
\* inner pop depends on the outer draw and not on the inner one, and after the
\* outer pop the accumulator is empty again, as at the first push.
C23_NestedScopesClosed ==
    /\ pc = "scope"
    /\ _dependency_stack = <<>>
    /\ _current_dependencies = <<>>
    /\ Len(heap[TraceRef].entries) = 3
    /\ heap[TraceRef].entries[1].dependencies = <<>>
    /\ heap[TraceRef].entries[2].dependencies = <<0>>
    /\ heap[TraceRef].entries[3].dependencies = <<0>>

\* C24: every traversal ends on every finite trace, also when an entry's
\* dependency list names the entry itself or the lists form a cycle: the depth
\* computation of Phase A, get_connected_components, get_variable_dependencies
\* and get_dependent_variables each return a result.
C24_TraversalsTerminate ==
    pc = "raw" =>
        LET trace == heap[TraceRef]
            graph == get_dependency_graph(trace)
        IN /\ \A i \in 1..Len(trace.entries) :
                \A o \in get_depth(graph, trace.entries[i].id, {}) :
                    o.depth \in 0..Len(trace.entries)
           /\ UNION SeqToSet(get_connected_components(trace)) \subseteq
                    EntryIds(trace) \cup UNION {SeqToSet(trace.entries[i].dependencies) :
                                                    i \in 1..Len(trace.entries)}
           /\ \A name \in Names :
                Cardinality(get_variable_dependencies(trace, name)) <= MaxEntries + 1
           /\ \A name \in Names : ~get_dependent_variables(trace, name).raised

\* The size of a trace: its number of entries plus the sizes of their values.
RECURSIVE TraceSize(_)
TraceSize(trace) ==
    IF trace.entries = <<>> THEN 0
    ELSE 1 + SizeOf(trace.entries[1].value)
           + TraceSize([trace EXCEPT !.entries = Tail(trace.entries)])

\* C25: calling shrink again and again on the trace it returned, with the same
\* test_func, converges.  Every call returns (none raises), the trace it
\* returns still fails, and it is either the call's input or strictly smaller,
\* so that a call returns its input after finitely many calls: here before
\* MaxInvocations repetitions.  A candidate a phase accepted is one test_func
\* raises on.  For one list entry of SequenceLength (8) elements and the
\* test_func that raises iff the length exceeds LengthThreshold (5), the length
\* returned is above the threshold and at most the input's.
C25_RepeatedShrinkConverges ==
    /\ pc # "raised"
    /\ pc = "done" =>
        /\ Raises(call.test_func, ValueMap(Returned))
        /\ IF NothingAccepted
           THEN Returned = call.input
           ELSE TraceSize(Returned) < TraceSize(call.input) /\ applications < MaxInvocations
        /\ call.A.returned => Raises(call.test_func, ValueMap(call.A.trace))
        /\ call.B.returned => Raises(call.test_func, ValueMap(call.B.trace))
        /\ call.C.returned => Raises(call.test_func, ValueMap(call.C.trace))
        /\ (/\ call.test_func = LengthProperty
            /\ Len(call.input.entries) = 1
            /\ call.input.entries[1].value.kind = "list") =>
                /\ Len(Returned.entries) = 1
                /\ Len(Returned.entries[1].value.s) > LengthThreshold
                /\ Len(Returned.entries[1].value.s) <= SequenceLength

\* C25 witness: after three calls that each made the trace smaller, the
\* fourth returned its input.
C25_ConvergedAfterSeveralCalls ==
    /\ pc = "done"
    /\ applications >= 3
    /\ NothingAccepted
    /\ Returned = call.input
    /\ call.A.tested # <<>>

\* C26: the "while improved" loop of PropertyTest._shrink_example ends for
\* every failing list of integers and every deterministic func, also when a
\* negative argument keeps failing at every halved value.  The loop and func
\* are deterministic, so it ends only if no run of its body asks for another
\* run and leaves the list as it found it: a run that sets improved has
\* changed the list.
C26_WhileLoopTerminates ==
    (/\ pc = "driver" /\ driver.pc = "while" /\ driver.before # <<>> /\ driver.improved
     /\ DriverRaises(driver.func, driver.failing_data)) =>
        driver.shrunk_data # driver.before[1]

\* C27: when Phase A accepts no candidate, Phase B accepts none either: it
\* runs on the input trace, every candidate it gives test_func is one Phase A
\* gave it and saw pass, and the trace it leaves is the input.  So Phase B
\* changes the trace only in a call where Phase A changed it.
C27_PhaseBNeedsPhaseA ==
    pc = "done" =>
        /\ ~call.A.returned =>
                /\ call.A.trace = call.input
                /\ ~call.B.returned
                /\ call.B.trace = call.input
                /\ \A k \in 1..Len(call.B.tested) :
                        /\ \E j \in 1..Len(call.A.tested) :
                                call.A.tested[j] = call.B.tested[k]
                        /\ ~CandidateFails(call.input, call.B.tested[k])
        /\ call.B.returned => call.A.returned

\* C27 witness: Phase A tested the candidates of at least three entries and
\* accepted none, and Phase B tested a root's candidate again.
C27_RootTestedTwice ==
    /\ pc = "done" /\ ~call.A.returned /\ ~call.B.returned
    /\ Len(call.B.tested) >= 1
    /\ Len(call.A.tested) >= 3
    /\ call.test_func.kind # "always"

\* The two traces have the same ids in the same positions, each with the same
\* dependency list.
SameStructure(a, b) ==
    /\ Len(a.entries) = Len(b.entries)
    /\ \A i \in 1..Len(a.entries) :
            /\ a.entries[i].id = b.entries[i].id
            /\ a.entries[i].dependencies = b.entries[i].dependencies

\* C28: the dependency graph and the reverse-dependency map the shrinker
\* computed at construction from the input trace are those of the traces the
\* phases work on: Phases A and B change values only, so the trace handed to
\* Phase B and the trace handed to Phase C have the input's ids and dependency
\* lists, and the two maps computed from them equal the shrinker's.
C28_GraphsStayAccurate ==
    pc = "done" =>
        /\ shrinker.dependency_graph = get_dependency_graph(call.input)
        /\ shrinker.reverse_dependencies = get_reverse_dependencies(call.input)
        /\ \A t \in {call.A.trace, call.B.trace} :
                /\ SameStructure(t, call.input)
                /\ EntryIds(t) = EntryIds(call.input)
                /\ get_dependency_graph(t) = shrinker.dependency_graph
                /\ get_reverse_dependencies(t) = shrinker.reverse_dependencies

\* C28 witness: Phase A changed a value, Phase B changed a value, and Phase C
\* looked up the dependents of an entry that two others depend on and tested
\* its removal.
C28_BothPhasesChangedValues ==
    /\ pc = "done" /\ call.A.returned /\ call.B.returned
    /\ call.C.tested # <<>>
    /\ ValueChanged(call.input, call.A.trace) # {}
    /\ ValueChanged(call.A.trace, call.B.trace) # {}
    /\ \E id \in DOMAIN shrinker.reverse_dependencies :
            Cardinality(shrinker.reverse_dependencies[id]) >= 2

\* The ids reached from the ids of found along dependency lists, found included.
RECURSIVE ReachedFrom(_, _)
ReachedFrom(trace, found) ==
    LET more == found \cup UNION {SeqToSet(trace.entries[i].dependencies) :
                                    i \in {k \in 1..Len(trace.entries) :
                                                trace.entries[k].id \in found}}
    IN IF more = found THEN found ELSE ReachedFrom(trace, more)

\* C29: for every bound name, variable_dependencies(name) holds the id the
\* name is bound to together with all its transitive dependencies, so it is
\* not empty, also for an entry without dependencies.
C29_IncludesBoundId ==
    pc = "raw" =>
        \A name \in DOMAIN heap[TraceRef].variable_assignments :
            LET trace == heap[TraceRef]
                deps == get_variable_dependencies(trace, name)
            IN /\ trace.variable_assignments[name] \in deps
               /\ deps # {}
               /\ deps = ReachedFrom(trace, {trace.variable_assignments[name]})

\* C29 witness: one name bound to an entry without dependencies, whose result
\* is its id alone, and one bound to an entry with two dependencies.
C29_BoundWithoutDependencies ==
    /\ pc = "raw"
    /\ \E name, other \in DOMAIN heap[TraceRef].variable_assignments :
        LET trace == heap[TraceRef]
            id == trace.variable_assignments[name]
        IN /\ FindEntry(trace, id) # 0
           /\ trace.entries[FindEntry(trace, id)].dependencies = <<>>
           /\ get_variable_dependencies(trace, name) = {id}
           /\ Cardinality(get_variable_dependencies(trace, other)) >= 3

\* C30: what the simple shrinkers hold in shrunk_data is the list they were
\* called with or an argument list func was called on and raised on, whether
\* func raised on the list they were called with or not: a position is
\* only overwritten with a value tested together with the current values of
\* the other positions.  So a list they return (not None) is one func was
\* seen to raise on, and it differs from the failing example.
C30_ReturnedListWasObserved ==
    (pc = "driver" /\ driver.pc \in {"while", "returned"}) =>
        /\ driver.shrunk_data = driver.failing_data \/ driver.shrunk_data \in driver.observed
        /\ \A d \in driver.observed : DriverRaises(driver.func, d)
        /\ (driver.pc = "returned" /\ ~driver.ret.none) =>
                /\ driver.ret.data \in driver.observed
                /\ DriverRaises(driver.func, driver.ret.data)
                /\ driver.ret.data # driver.failing_data
        /\ (driver.pc = "returned" /\ driver.ret.none) =>
                driver.shrunk_data = driver.failing_data

\* C30 witness: a shrinker returned a list of two arguments, both overwritten,
\* after func passed on some candidate and raised on several.
C30_BothPositionsOverwritten ==
    /\ pc = "driver" /\ driver.pc = "returned" /\ ~driver.ret.none
    /\ Len(driver.failing_data) = 2
    /\ driver.func.kind # "always"
    /\ driver.ret.data[1] # driver.failing_data[1]
    /\ driver.ret.data[2] # driver.failing_data[2]
    /\ Cardinality(driver.observed) >= 3
====
